---- MODULE Spec2Model ----
(***************************************************************************)
(* A model of the dynamic speculation-length controller (package dsde):    *)
(* the signal processor, the speculation-length adapter, the batch         *)
(* optimizer and the round loop of DSDecoder.decode_batch.                 *)
(*                                                                         *)
(* Reals.  The code computes in binary floating point.  The model computes *)
(* the same expressions exactly, over rationals <<n, d>> with d > 0 kept   *)
(* in lowest terms.  KL-divergence and entropy samples are drawn from      *)
(* small sets of naturals: the model takes the value compute_kld or        *)
(* compute_entropy returns as the input, and does not model softmax.       *)
(***************************************************************************)
EXTENDS Integers, Sequences, FiniteSets, TLC

\* ------------------------------------------------------------------------
\* Bounds of the model
\* ------------------------------------------------------------------------

\* Sequences in a batch handed to a stand-alone BatchOptimizer.
MaxBatch == 3

\* Rounds of the decode_batch loop that the model follows.
MaxRounds == 2

\* Calls made on a stand-alone adapter.
MaxOps == 3

\* The counters of the program are unbounded integers.  The model keeps each one
\* exactly up to CounterCap and holds it there: no condition of the code reads an
\* accumulated counter, and the runs that MaxRounds bounds stay below the cap.
CounterCap == 64

\* ------------------------------------------------------------------------
\* Exact arithmetic
\* ------------------------------------------------------------------------

Abs(x) == IF x < 0 THEN -x ELSE x

Min2(a, b) == IF a <= b THEN a ELSE b

Max2(a, b) == IF a >= b THEN a ELSE b

\* x += n on a counter
Plus(x, n) == Min2(x + n, CounterCap)

RECURSIVE GCD(_, _)
GCD(a, b) == IF b = 0 THEN a ELSE GCD(b, a % b)

\* The rational n/d (d > 0) in lowest terms.
Rat(n, d) ==
    LET g == GCD(Abs(n), d)
    IN  IF g = 0 THEN <<0, 1>> ELSE <<n \div g, d \div g>>

RInt(k) == <<k, 1>>

RAdd(a, b) == Rat(a[1] * b[2] + b[1] * a[2], a[2] * b[2])

RSub(a, b) == Rat(a[1] * b[2] - b[1] * a[2], a[2] * b[2])

RMul(a, b) ==
    LET g1 == GCD(Abs(a[1]), b[2])
        g2 == GCD(Abs(b[1]), a[2])
        h1 == IF g1 = 0 THEN 1 ELSE g1
        h2 == IF g2 = 0 THEN 1 ELSE g2
    IN  Rat((a[1] \div h1) * (b[1] \div h2), (a[2] \div h2) * (b[2] \div h1))

\* a / b for b > 0.
RDiv(a, b) == RMul(a, <<b[2], b[1]>>)

RLt(a, b) == a[1] * b[2] < b[1] * a[2]

RLe(a, b) == a[1] * b[2] <= b[1] * a[2]

RMin(a, b) == IF RLe(a, b) THEN a ELSE b

RMax(a, b) == IF RLe(b, a) THEN a ELSE b

\* int(x): truncation toward zero.
RTrunc(a) == IF a[1] >= 0 THEN a[1] \div a[2] ELSE -((-a[1]) \div a[2])

\* The integer nearest to a >= 0 when it is unique, ties to the even one
\* (Python 3's round).
RRound(a) ==
    LET f == a[1] \div a[2]
        r == a[1] - f * a[2]
    IN  IF 2 * r < a[2] THEN f
        ELSE IF 2 * r > a[2] THEN f + 1
        ELSE IF f % 2 = 0 THEN f ELSE f + 1

RECURSIVE SumInt(_)
SumInt(s) == IF s = <<>> THEN 0 ELSE Head(s) + SumInt(Tail(s))

RECURSIVE SumSq(_)
SumSq(s) == IF s = <<>> THEN 0 ELSE Head(s) * Head(s) + SumSq(Tail(s))

RECURSIVE SumRat(_)
SumRat(s) == IF s = <<>> THEN <<0, 1>> ELSE RAdd(Head(s), SumRat(Tail(s)))

\* np.mean of a non-empty list of rationals.
MeanRat(s) == RDiv(SumRat(s), RInt(Len(s)))

\* np.var (population variance) of a non-empty list of integers.
Var(s) == Rat(Len(s) * SumSq(s) - SumInt(s) * SumInt(s), Len(s) * Len(s))

\* s[-k:]
LastK(s, k) == IF Len(s) <= k THEN s ELSE SubSeq(s, Len(s) - k + 1, Len(s))

\* A full deque that drops the new sample and keeps the oldest
DropNewest(s, x, cap) == IF Len(s) < cap THEN Append(s, x) ELSE s

\* deque(maxlen = cap).append(x)
DequeAppend(s, x, cap) == LastK(Append(s, x), cap)

RECURSIVE DequeExtend(_, _, _)
DequeExtend(s, xs, cap) ==
    IF xs = <<>> THEN s
    ELSE DequeExtend(DequeAppend(s, Head(xs), cap), Tail(xs), cap)

\* ------------------------------------------------------------------------
\* SignalConfig and the signal processor (signals.py)
\* ------------------------------------------------------------------------

short_window_size == 4

long_window_size == 12

min_history_length == 2

EntropyHistoryMaxLen == 10

\* KLDVarianceSignal.get_regional_stability on a sequence's KL history
\* (an id without a history and an id with an empty one answer alike).
get_regional_stability(history) ==
    IF Len(history) < min_history_length THEN <<1, 2>>
    ELSE LET recent_klds == LastK(history, short_window_size)
         IN  IF Len(recent_klds) < 2 THEN <<1, 2>>
             ELSE LET stability == RDiv(RInt(1), RAdd(RInt(1), Var(recent_klds)))
                  IN  RMin(RInt(1), RMax(RInt(0), stability))

\* A WVIR that answers 1.0 whenever the long-window variance is 0
wvir_one_on_flat_history(kld_history) ==
    IF Len(kld_history) < short_window_size THEN <<0, 1>>
    ELSE LET short_window == LastK(kld_history, short_window_size)
             long_window  == LastK(kld_history, long_window_size)
         IN  IF Var(long_window)[1] = 0 THEN <<1, 1>>
             ELSE RMin(RInt(10), RMax(RInt(0), RDiv(Var(short_window), Var(long_window))))

\* WVIRCalculator.calculate_wvir
calculate_wvir(kld_history) ==
    IF Len(kld_history) < short_window_size THEN <<0, 1>>
    ELSE LET short_window == LastK(kld_history, short_window_size)
             long_window  == IF Len(kld_history) >= long_window_size
                             THEN LastK(kld_history, long_window_size)
                             ELSE kld_history
             short_var == IF Len(short_window) > 1 THEN Var(short_window) ELSE <<0, 1>>
             long_var  == IF Len(long_window) > 1 THEN Var(long_window) ELSE <<0, 1>>
         IN  IF long_var[1] = 0
             THEN (IF short_var[1] > 0 THEN <<1, 1>> ELSE <<0, 1>>)
             ELSE RMin(RInt(10), RMax(RInt(0), RDiv(short_var, long_var)))

\* CombinedSignalProcessor.get_sequence_metrics: the keys it sets and their values.
get_sequence_metrics(kld, ent) ==
    [ stability       |-> get_regional_stability(kld),
      has_wvir        |-> kld # <<>>,
      wvir            |-> IF kld # <<>> THEN calculate_wvir(kld) ELSE <<0, 1>>,
      has_entropy     |-> ent # <<>>,
      current_entropy |-> IF ent # <<>> THEN ent[Len(ent)] ELSE 0 ]

\* KLDVarianceSignal.update_history
kld_update_history(history, kld_values) ==
    DequeExtend(history, kld_values, long_window_size)

\* EntropySignal.update_history
entropy_update_history(history, entropy) ==
    DequeAppend(history, entropy, EntropyHistoryMaxLen)

\* ------------------------------------------------------------------------
\* AdapterConfig and the speculation-length adapter (adapter.py)
\* ------------------------------------------------------------------------

DefaultAdapterConfig ==
    [ min_speculation_length     |-> 1,
      max_speculation_length     |-> 8,
      default_speculation_length |-> 4,
      straggler_tolerance        |-> <<2, 1>> ]

stability_threshold_high == <<7, 10>>

stability_threshold_low == <<3, 10>>

wvir_threshold_stable == <<1, 1>>

wvir_threshold_unstable == <<3, 1>>

history_weight == <<4, 5>>

min_acceptance_rate == <<3, 10>>

target_acceptance_rate == <<7, 10>>

HistoryMaxLen == 10

\* defaultdict factory of sequence_performance
NewPerformance ==
    [ recent_acceptance_rates    |-> <<>>,
      recent_speculation_lengths |-> <<>>,
      total_tokens_generated     |-> 0,
      total_tokens_accepted      |-> 0 ]

\* sequence_states.get(sequence_id, {})
NoSequenceState ==
    [ last_predicted_sl |-> 0,
      last_metrics      |-> get_sequence_metrics(<<>>, <<>>),
      prediction_count  |-> 0 ]

\* A context dict: the keys present and their values (temperature in tenths).
Context(keys, task, len, temp) ==
    [ keys |-> keys, task_type |-> task, current_length |-> len, temperature |-> temp ]

\* None, or {}
NoContext == Context({}, "general", 0, 10)

\* SpeculationLengthAdapter._predict_from_stability
predict_from_stability(metrics, cfg) ==
    LET stability == metrics.stability
        wvir      == IF metrics.has_wvir THEN metrics.wvir ELSE <<1, 1>>
        entropy   == IF metrics.has_entropy THEN metrics.current_entropy ELSE 2
        minsl     == RInt(cfg.min_speculation_length)
        maxsl     == RInt(cfg.max_speculation_length)
        factor    == RDiv(RSub(stability, stability_threshold_low),
                          RSub(stability_threshold_high, stability_threshold_low))
        stability_factor == RMax(RInt(0), RMin(RInt(1), factor))
        base_sl   ==
            IF RLt(stability_threshold_high, stability) /\ RLt(wvir, wvir_threshold_stable)
            THEN RMul(maxsl, <<4, 5>>)
            ELSE IF RLt(stability, stability_threshold_low) \/ RLt(wvir_threshold_unstable, wvir)
            THEN RMul(minsl, <<3, 2>>)
            ELSE RAdd(minsl, RMul(stability_factor, RSub(maxsl, minsl)))
    IN  IF entropy < 1 THEN RMul(base_sl, <<6, 5>>)
        ELSE IF entropy > 4 THEN RMul(base_sl, <<4, 5>>)
        ELSE base_sl

\* SpeculationLengthAdapter._adjust_for_history
adjust_for_history(perf, base_sl) ==
    IF perf.recent_acceptance_rates = <<>> THEN base_sl
    ELSE LET recent_acceptance == MeanRat(perf.recent_acceptance_rates)
             adjustment ==
                 IF RLt(target_acceptance_rate, recent_acceptance)
                 THEN RAdd(RInt(1), RMul(RSub(recent_acceptance, target_acceptance_rate), RInt(2)))
                 ELSE IF RLt(recent_acceptance, min_acceptance_rate)
                 THEN RAdd(<<1, 2>>, RMul(RDiv(recent_acceptance, min_acceptance_rate), <<1, 2>>))
                 ELSE RAdd(RInt(1), RMul(RSub(recent_acceptance, target_acceptance_rate), <<1, 2>>))
         IN  RMul(base_sl, RAdd(RMul(history_weight, adjustment),
                                RSub(RInt(1), history_weight)))

\* SpeculationLengthAdapter._adjust_for_context
adjust_for_context(base_sl, context_info) ==
    IF context_info.keys = {} THEN base_sl
    ELSE LET task_type == IF "task_type" \in context_info.keys
                          THEN context_info.task_type ELSE "general"
             sequence_length == IF "current_length" \in context_info.keys
                                THEN context_info.current_length ELSE 0
             temperature == IF "temperature" \in context_info.keys
                            THEN context_info.temperature ELSE 10
             a1 == IF task_type = "code_generation" THEN RMul(base_sl, <<11, 10>>)
                   ELSE IF task_type = "creative_writing" THEN RMul(base_sl, <<9, 10>>)
                   ELSE IF task_type = "dialogue" THEN RMul(base_sl, <<19, 20>>)
                   ELSE base_sl
             a2 == IF sequence_length > 1000 THEN RMul(a1, <<21, 20>>)
                   ELSE IF sequence_length < 50 THEN RMul(a1, <<19, 20>>)
                   ELSE a1
         IN  IF temperature < 3 THEN RMul(a2, <<11, 10>>)
             ELSE IF temperature > 15 THEN RMul(a2, <<9, 10>>)
             ELSE a2

\* The value predict_optimal_sl clamps: stability base, history, context.
context_adjusted_sl(metrics, perf, context_info, cfg) ==
    adjust_for_context(adjust_for_history(perf, predict_from_stability(metrics, cfg)),
                       context_info)

\* A clamp from below only: max(min_speculation_length, x)
clamp_below(x, cfg) == RMax(RInt(cfg.min_speculation_length), x)

\* final_sl = max(min_speculation_length, min(max_speculation_length, x))
clamp_sl(x, cfg) ==
    RMax(RInt(cfg.min_speculation_length), RMin(RInt(cfg.max_speculation_length), x))

\* return int(final_sl)
to_int(final_sl) == RTrunc(final_sl)

\* The value predict_optimal_sl returns.
predict_optimal_sl(metrics, perf, context_info, cfg) ==
    to_int(clamp_sl(context_adjusted_sl(metrics, perf, context_info, cfg), cfg))

\* SpeculationLengthAdapter._update_sequence_state
update_sequence_state(state, final_sl, metrics) ==
    [ last_predicted_sl |-> final_sl,
      last_metrics      |-> metrics,
      prediction_count  |-> Plus(state.prediction_count, 1) ]

\* An update_performance that takes its two token counts in the other order
update_performance_swapped(perf, speculation_length, accepted_tokens, total_tokens) ==
    LET acceptance_rate == Rat(total_tokens, Max2(1, accepted_tokens))
    IN  [ recent_acceptance_rates    |->
              DequeAppend(perf.recent_acceptance_rates, acceptance_rate, HistoryMaxLen),
          recent_speculation_lengths |->
              DequeAppend(perf.recent_speculation_lengths, speculation_length, HistoryMaxLen),
          total_tokens_generated     |-> Plus(perf.total_tokens_generated, accepted_tokens),
          total_tokens_accepted      |-> Plus(perf.total_tokens_accepted, total_tokens) ]

\* SpeculationLengthAdapter.update_performance
update_performance(perf, speculation_length, accepted_tokens, total_tokens) ==
    LET acceptance_rate == Rat(accepted_tokens, Max2(1, total_tokens))
    IN  [ recent_acceptance_rates    |->
              DequeAppend(perf.recent_acceptance_rates, acceptance_rate, HistoryMaxLen),
          recent_speculation_lengths |->
              DequeAppend(perf.recent_speculation_lengths, speculation_length, HistoryMaxLen),
          total_tokens_generated     |-> Plus(perf.total_tokens_generated, total_tokens),
          total_tokens_accepted      |-> Plus(perf.total_tokens_accepted, accepted_tokens) ]


\* ------------------------------------------------------------------------
\* BatchOptimizer (adapter.py), the optimizer DSDecoder uses
\* ------------------------------------------------------------------------

\* priorities is None
NoPriorities == [ given |-> FALSE, weights |-> <<>> ]

Priorities(w) == [ given |-> TRUE, weights |-> w ]

RECURSIVE WeightedSum(_, _)
WeightedSum(sls, w) ==
    IF sls = <<>> \/ w = <<>> THEN 0
    ELSE Head(sls) * Head(w) + WeightedSum(Tail(sls), Tail(w))

\* The mean _calculate_adaptive_sl_cap rounds: sum/len, or the weighted sum over
\* max(total_weight, 1e-8) (a zero total weight has a zero weighted sum).
cap_mean(predicted_sls, priorities) ==
    IF ~priorities.given THEN Rat(SumInt(predicted_sls), Len(predicted_sls))
    ELSE IF SumInt(priorities.weights) = 0 THEN <<0, 1>>
    ELSE Rat(WeightedSum(predicted_sls, priorities.weights), SumInt(priorities.weights))

\* int(sl_cap): the mean cut to its integer part
truncate_cap(mean) == RTrunc(mean)

\* round(sl_cap)
round_cap(mean) == RRound(mean)

\* BatchOptimizer._calculate_adaptive_sl_cap
calculate_adaptive_sl_cap(predicted_sls, priorities, cfg) ==
    IF predicted_sls = <<>> THEN cfg.default_speculation_length
    ELSE Max2(cfg.min_speculation_length,
              Min2(cfg.max_speculation_length, round_cap(cap_mean(predicted_sls, priorities))))

\* optimized_sls = [min(sl, sl_cap) for sl in predicted_sls]
apply_cap(predicted_sls, cap) ==
    [i \in 1..Len(predicted_sls) |-> Min2(predicted_sls[i], cap)]

\* std_sl > mean_sl * 0.5, for a non-empty list with a mean >= 0
high_variance(lengths) ==
    LET mean == Rat(SumInt(lengths), Len(lengths))
    IN  RLt(RMul(<<1, 4>>, RMul(mean, mean)), Var(lengths))

\* abs(sl - mean_sl) > straggler_tolerance * std_sl
is_straggler(sl, lengths, cfg) ==
    LET mean == Rat(SumInt(lengths), Len(lengths))
        dev  == RSub(RInt(sl), mean)
        tol  == cfg.straggler_tolerance
    IN  RLt(RMul(RMul(tol, tol), Var(lengths)), RMul(dev, dev))

\* A length put at the rounded mean: max(1, min(max_speculation_length, round(mean_sl)))
pulled_to_mean(sl, lengths, cfg) ==
    Max2(1, Min2(cfg.max_speculation_length, RRound(Rat(SumInt(lengths), Len(lengths)))))

\* max(1, min(max_speculation_length, round(sl + 0.3 * (mean_sl - sl))))
balanced_sl(sl, lengths, cfg) ==
    LET mean == Rat(SumInt(lengths), Len(lengths))
        pulled == RAdd(RInt(sl), RMul(<<3, 10>>, RSub(mean, RInt(sl))))
    IN  Max2(1, Min2(cfg.max_speculation_length, RRound(pulled)))

\* BatchOptimizer._apply_batch_balancing
apply_batch_balancing(lengths, cfg) ==
    IF lengths = <<>> THEN lengths
    ELSE IF high_variance(lengths)
    THEN [i \in 1..Len(lengths) |->
              IF is_straggler(lengths[i], lengths, cfg)
              THEN balanced_sl(lengths[i], lengths, cfg)
              ELSE lengths[i]]
    ELSE lengths

\* BatchOptimizer.optimize_batch_speculation_lengths: <<optimized_sls, sl_cap>>
optimize_batch_speculation_lengths(predicted_sls, priorities, cfg) ==
    IF predicted_sls = <<>> THEN << <<>>, 0 >>
    ELSE LET cap == calculate_adaptive_sl_cap(predicted_sls, priorities, cfg)
         IN  << apply_batch_balancing(apply_cap(predicted_sls, cap), cfg), cap >>


\* ------------------------------------------------------------------------
\* State
\* ------------------------------------------------------------------------

VARIABLES
    \* AdapterConfig handed to the constructors, and whether construction returned
    config, constructed,
    \* DSDecoder.signal_processor: kld_signal.sequence_histories, entropy_signal.entropy_history
    kld_histories, entropy_history,
    \* SpeculationLengthAdapter.signal_processor, the adapter's own instance
    adapter_kld_histories, adapter_entropy_history,
    \* SpeculationLengthAdapter.sequence_performance, sequence_states
    sequence_performance, sequence_states,
    \* DSDecoder.global_stats, DSDecoder.performance_metrics
    global_stats, performance_metrics,
    \* decode_batch: where it stands, and its locals
    phase, active_sequences, max_tokens, context_info, results, rounds_done,
    speculation_lengths, optimized_sls, sl_cap,
    draft_results, verification_results, round_results,
    \* the last call made on a stand-alone component, and the calls made so far
    last_call, ops,
    \* threads inside _update_global_stats: position, value loaded, batch totals
    thread_pc, thread_loaded, thread_batch,
    \* main_with_dsde.py: the module's system_metrics and metrics_lock, and where
    \* each thread calling update_system_metrics stands
    system_metrics, metrics_lock, worker

cfgVars    == << config, constructed >>
signalVars == << kld_histories, entropy_history >>
adapterVars == << adapter_kld_histories, adapter_entropy_history,
                  sequence_performance, sequence_states >>
decoderVars == << global_stats, performance_metrics >>
batchVars  == << phase, active_sequences, max_tokens, context_info, results, rounds_done,
                 speculation_lengths, optimized_sls, sl_cap,
                 draft_results, verification_results, round_results >>
callVars   == << last_call, ops >>
threadVars == << thread_pc, thread_loaded, thread_batch >>
serverVars == << system_metrics, metrics_lock, worker >>

vars == << cfgVars, signalVars, adapterVars, decoderVars, batchVars, callVars, threadVars,
          serverVars >>

\* Sequence ids
SeqIds == {"s1", "s2"}

\* Entropies of the first draft distribution of a step, as the draft collaborator
\* of decode_batch produces them.
EntropyValues == {5}

\* Request threads of the chat handler that share the decoder
Threads == {1, 2}

\* DSDecoder.__init__: global_stats
NewGlobalStats ==
    [ total_sequences_processed |-> 0,
      total_tokens_generated    |-> 0,
      total_tokens_accepted     |-> 0,
      total_speculation_rounds  |-> 0 ]

\* PerformanceMetrics.__init__
NewPerformanceMetrics ==
    [ round_counter |-> 0, total_rounds |-> 0, round_metrics_len |-> 0 ]

\* results.get(seq_id): a DSDecodeResult, or none yet
NoResult ==
    [ present |-> FALSE, tokens_generated |-> 0, tokens_accepted |-> 0,
      speculation_rounds |-> 0 ]

NoDraft == [ present |-> FALSE, tokens |-> 0, logits |-> 0, entropy |-> 0,
             speculation_length |-> 0, failed |-> FALSE ]

NoVerification ==
    [ present |-> FALSE, accepted_tokens |-> 0, accepted_ok |-> TRUE, target_logits |-> 0,
      kld |-> 0, is_complete |-> FALSE, failed |-> FALSE ]

NoRoundResult ==
    [ present |-> FALSE, tokens_generated |-> 0, tokens_accepted |-> 0,
      speculation_length |-> 0, is_complete |-> FALSE, error |-> FALSE ]

\* No call made yet on a stand-alone component.  A call is kept with its sequence
\* id, context, priorities, its other arguments, the value it computed before
\* clamping, and its return.
NoCall == [ op |-> "none", seq |-> "none", context |-> NoContext,
            priorities |-> NoPriorities, args |-> <<>>, raw |-> <<0, 1>>, ret |-> 0 ]

\* system_metrics as main_with_dsde.py creates it: 'dsde_metrics' is present and
\* is an empty dict (initialised tells whether it holds its counters)
NewSystemMetrics ==
    [ total_queries     |-> 0,
      avg_response_time |-> <<0, 1>>,
      dsde_metrics      |-> [ initialised |-> FALSE, total_tokens_generated |-> 0,
                              processed_sequences |-> 0 ] ]

\* threading.Lock(), not held
Unlocked == 0

\* A thread outside update_system_metrics
IdleWorker == [ at |-> "idle", orchestration_result |-> FALSE, dsde_result |-> FALSE ]

\* The state after DSDecoder(config) / SpeculationLengthAdapter(config) returned,
\* apart from config and constructed.
Fresh ==
    /\ kld_histories = [s \in SeqIds |-> <<>>]
    /\ entropy_history = [s \in SeqIds |-> <<>>]
    /\ adapter_kld_histories = [s \in SeqIds |-> <<>>]
    /\ adapter_entropy_history = [s \in SeqIds |-> <<>>]
    /\ sequence_performance = [s \in SeqIds |-> NewPerformance]
    /\ sequence_states = [s \in SeqIds |-> NoSequenceState]
    /\ global_stats = NewGlobalStats
    /\ performance_metrics = NewPerformanceMetrics
    /\ phase = "idle"
    /\ active_sequences = <<>>
    /\ max_tokens = [s \in SeqIds |-> 0]
    /\ context_info = [s \in SeqIds |-> NoContext]
    /\ results = [s \in SeqIds |-> NoResult]
    /\ rounds_done = 0
    /\ speculation_lengths = <<>>
    /\ optimized_sls = <<>>
    /\ sl_cap = 0
    /\ draft_results = [s \in SeqIds |-> NoDraft]
    /\ verification_results = [s \in SeqIds |-> NoVerification]
    /\ round_results = [s \in SeqIds |-> NoRoundResult]
    /\ last_call = NoCall
    /\ ops = 0
    /\ thread_pc = [t \in Threads |-> [ at |-> "idle", key |-> 1 ]]
    /\ thread_loaded = [t \in Threads |-> 0]
    /\ thread_batch = [t \in Threads |-> NewGlobalStats]
    /\ system_metrics = NewSystemMetrics
    /\ metrics_lock = Unlocked
    /\ worker = [t \in Threads |-> IdleWorker]

\* The elements of a list, and the position of an element in it
Range(s) == {s[i] : i \in 1..Len(s)}

\* Every sequence is given the position of the first one
FirstIndex(s, x) == 1

IndexOf(s, x) == CHOOSE i \in 1..Len(s) : s[i] = x

RECURSIVE Without(_, _)
Without(s, gone) ==
    IF s = <<>> THEN <<>>
    ELSE IF Head(s) \in gone THEN Without(Tail(s), gone)
    ELSE <<Head(s)>> \o Without(Tail(s), gone)


\* ------------------------------------------------------------------------
\* DSDecoder.decode_batch (core.py)
\* ------------------------------------------------------------------------

\* Batches handed to decode_batch: the ids in order, each with a max_tokens budget
\* and a context.
Batches == { <<>>, <<"s1">>, <<"s1", "s2">> }

Budgets == {2, 10}

DecodeContexts ==
    { NoContext,
      Context({"task_type", "temperature", "current_length"}, "code_generation", 60, 7) }

\* Numbers of tokens a draft step can be asked for or return
TokenCounts == 0..DefaultAdapterConfig.max_speculation_length

\* What the draft collaborator may answer for speculation length sl: it raises,
\* or returns sl tokens with one distribution each.
DraftOutcomes(sl) ==
    { [ failed |-> TRUE, tokens |-> 0, entropy |-> 0 ] }
    \cup { [ failed |-> FALSE, tokens |-> sl, entropy |-> e ] : e \in EntropyValues }

\* Target against draft on n tokens: <<accepted_count, KL sample>>.  The target
\* agrees (all accepted, no divergence) or diverges (half accepted).
Agreement(n) ==
    IF n = 0 THEN { <<0, 0>> } ELSE { <<n, 0>>, <<n \div 2, 3>> }

\* What the verification collaborator may answer for n draft tokens: it raises; or
\* it returns accepted_count <= n, n target distributions and is_complete; or its
\* answer is malformed (accepted_tokens is not a number).
VerifyOutcomes(n) ==
    { [ failed |-> TRUE, accepted_ok |-> TRUE, accepted_tokens |-> 0, target_logits |-> 0,
        kld |-> 0, is_complete |-> FALSE ] }
    \cup { [ failed |-> FALSE, accepted_ok |-> TRUE, accepted_tokens |-> a[1],
             target_logits |-> n, kld |-> a[2], is_complete |-> c ] :
           a \in Agreement(n), c \in BOOLEAN }
    \cup (IF n = 0 THEN {}
          ELSE { [ failed |-> FALSE, accepted_ok |-> FALSE, accepted_tokens |-> 0,
                   target_logits |-> n, kld |-> 3, is_complete |-> FALSE ] })

\* decode_batch, lines 118-123
StartBatch ==
    /\ phase = "idle"
    /\ constructed
    /\ \E batch \in Batches, budget \in [SeqIds -> Budgets], ctx \in DecodeContexts :
          /\ active_sequences' = batch
          /\ max_tokens' = [s \in SeqIds |-> IF s \in Range(batch) THEN budget[s] ELSE 0]
          /\ context_info' = [s \in SeqIds |-> IF s \in Range(batch) THEN ctx ELSE NoContext]
    /\ results' = [s \in SeqIds |-> NoResult]
    /\ phase' = "loop"
    /\ UNCHANGED << cfgVars, signalVars, adapterVars, decoderVars, rounds_done,
                    speculation_lengths, optimized_sls, sl_cap,
                    draft_results, verification_results, round_results,
                    callVars, threadVars, serverVars >>

\* The metrics predict_optimal_sl reads for a sequence: those of the adapter's own
\* signal processor (adapter.py, line 84).
adapter_metrics(s) ==
    get_sequence_metrics(adapter_kld_histories[s], adapter_entropy_history[s])

\* A decoder that predicts the next round's lengths as soon as the verification
\* answers are in, before the round's results are processed
EagerPredictBatch(limit) ==
    /\ phase \in {"loop", "verified"}
    /\ active_sequences # <<>>
    /\ rounds_done < limit
    /\ speculation_lengths' =
          [i \in 1..Len(active_sequences) |->
              LET s == active_sequences[i]
              IN  predict_optimal_sl(adapter_metrics(s), sequence_performance[s],
                                     context_info[s], config)]
    /\ sequence_states' =
          [s \in SeqIds |->
              IF s \in Range(active_sequences)
              THEN update_sequence_state(
                       sequence_states[s],
                       predict_optimal_sl(adapter_metrics(s), sequence_performance[s],
                                          context_info[s], config),
                       adapter_metrics(s))
              ELSE sequence_states[s]]
    /\ phase' = "predicted"
    /\ UNCHANGED << cfgVars, signalVars, adapter_kld_histories, adapter_entropy_history,
                    sequence_performance, decoderVars,
                    active_sequences, max_tokens, context_info, results, rounds_done,
                    optimized_sls, sl_cap, draft_results, verification_results,
                    round_results, callVars, threadVars, serverVars >>

\* _predict_batch_speculation_lengths, in a run followed for at most `limit` rounds
PredictBatchWithin(limit) ==
    /\ phase = "loop"
    /\ active_sequences # <<>>
    /\ rounds_done < limit
    /\ speculation_lengths' =
          [i \in 1..Len(active_sequences) |->
              LET s == active_sequences[i]
              IN  predict_optimal_sl(adapter_metrics(s), sequence_performance[s],
                                     context_info[s], config)]
    /\ sequence_states' =
          [s \in SeqIds |->
              IF s \in Range(active_sequences)
              THEN update_sequence_state(
                       sequence_states[s],
                       predict_optimal_sl(adapter_metrics(s), sequence_performance[s],
                                          context_info[s], config),
                       adapter_metrics(s))
              ELSE sequence_states[s]]
    /\ phase' = "predicted"
    /\ UNCHANGED << cfgVars, signalVars, adapter_kld_histories, adapter_entropy_history,
                    sequence_performance, decoderVars,
                    active_sequences, max_tokens, context_info, results, rounds_done,
                    optimized_sls, sl_cap, draft_results, verification_results,
                    round_results, callVars, threadVars, serverVars >>

\* decode_batch, lines 132-139 (enable_batch_optimization is True)
OptimizeBatch ==
    /\ phase = "predicted"
    /\ LET out == optimize_batch_speculation_lengths(speculation_lengths, NoPriorities, config)
       IN  /\ optimized_sls' = out[1]
           /\ sl_cap' = out[2]
    /\ phase' = "optimized"
    /\ UNCHANGED << cfgVars, signalVars, adapterVars, decoderVars,
                    active_sequences, max_tokens, context_info, results, rounds_done,
                    speculation_lengths, draft_results, verification_results,
                    round_results, callVars, threadVars, serverVars >>

\* An exception of one sequence that would leave the step and end the round
exception_escapes(failed) == failed # {}

\* Whether an exception of the draft collaborator leaves _generate_draft_tokens:
\* it is caught per sequence (lines 311-317).
draft_exception_propagates(failed) == FALSE

\* Whether an exception of the verification collaborator leaves _verify_with_target:
\* it is caught per sequence (lines 343-349).
verify_exception_propagates(failed) == FALSE

\* The results _perform_speculation_round returns from its except clause
ErrorResults(ids) ==
    [s \in SeqIds |->
        IF s \in Range(ids)
        THEN [ present |-> TRUE, tokens_generated |-> 0, tokens_accepted |-> 0,
               speculation_length |-> 0, is_complete |-> FALSE, error |-> TRUE ]
        ELSE NoRoundResult]

\* _generate_draft_tokens, with a draft collaborator that answers from outcomes[sl]
\* when asked for sl tokens
GenerateDraftFrom(outcomes) ==
    /\ phase = "optimized"
    /\ \E d \in [Range(active_sequences) -> UNION {outcomes[sl] : sl \in Range(optimized_sls)}] :
          /\ \A s \in Range(active_sequences) :
                d[s] \in outcomes[optimized_sls[IndexOf(active_sequences, s)]]
          /\ IF draft_exception_propagates({s \in Range(active_sequences) : d[s].failed})
             THEN /\ round_results' = ErrorResults(active_sequences)
                  /\ phase' = "processed"
                  /\ UNCHANGED draft_results
             ELSE /\ draft_results' =
                        [s \in SeqIds |->
                            IF s \in Range(active_sequences)
                            THEN IF d[s].failed
                                 THEN [ present |-> TRUE, tokens |-> 0, logits |-> 0,
                                        entropy |-> 0, speculation_length |-> 1,
                                        failed |-> TRUE ]
                                 ELSE [ present |-> TRUE, tokens |-> d[s].tokens,
                                        logits |-> d[s].tokens, entropy |-> d[s].entropy,
                                        speculation_length |->
                                            optimized_sls[IndexOf(active_sequences, s)],
                                        failed |-> FALSE ]
                            ELSE NoDraft]
                  /\ phase' = "drafted"
                  /\ UNCHANGED round_results
    /\ UNCHANGED << cfgVars, signalVars, adapterVars, decoderVars,
                    active_sequences, max_tokens, context_info, results, rounds_done,
                    speculation_lengths, optimized_sls, sl_cap, verification_results,
                    callVars, threadVars, serverVars >>

\* _verify_with_target, with a verification collaborator that answers from
\* outcomes[n] when given n draft tokens
VerifyWithTargetFrom(outcomes) ==
    /\ phase = "drafted"
    /\ \E v \in [Range(active_sequences) ->
                    UNION {outcomes[draft_results[s].tokens] : s \in Range(active_sequences)}] :
          /\ \A s \in Range(active_sequences) : v[s] \in outcomes[draft_results[s].tokens]
          /\ IF verify_exception_propagates({s \in Range(active_sequences) : v[s].failed})
             THEN /\ round_results' = ErrorResults(active_sequences)
                  /\ phase' = "processed"
                  /\ UNCHANGED verification_results
             ELSE /\ verification_results' =
                        [s \in SeqIds |->
                            IF s \in Range(active_sequences)
                            THEN [ present |-> TRUE ] @@ v[s]
                            ELSE NoVerification]
                  /\ phase' = "verified"
                  /\ UNCHANGED round_results
    /\ UNCHANGED << cfgVars, signalVars, adapterVars, decoderVars,
                    active_sequences, max_tokens, context_info, results, rounds_done,
                    speculation_lengths, optimized_sls, sl_cap, draft_results,
                    callVars, threadVars, serverVars >>


\* CombinedSignalProcessor.process_verification_step, as far as it changes the
\* histories: min(len(draft_logits), len(target_logits)) KL samples are appended,
\* then the entropy of draft_logits[0].  The histories are updated before
\* accepted_tokens is used (line 312).
process_verification_step(kld_h, ent_h, draft_logits, target_logits, kld, entropy) ==
    LET n == Min2(draft_logits, target_logits)
    IN  [ kld |-> kld_update_history(kld_h, [i \in 1..n |-> kld]),
          ent |-> IF draft_logits > 0 THEN entropy_update_history(ent_h, entropy) ELSE ent_h ]

\* DSDecoder._process_verification_result for one sequence: the result it
\* returns and the signal histories and adapter performance it leaves.
process_verification_result(kld_h, ent_h, perf, draft, ver, speculation_length) ==
    LET total_tokens == draft.tokens
        signals == IF draft.logits > 0 /\ ver.target_logits > 0
                   THEN process_verification_step(kld_h, ent_h, draft.logits,
                                                  ver.target_logits, ver.kld, draft.entropy)
                   ELSE [ kld |-> kld_h, ent |-> ent_h ]
    IN  IF ver.accepted_ok
        THEN [ kld  |-> signals.kld,
               ent  |-> signals.ent,
               perf |-> update_performance(perf, speculation_length,
                                           ver.accepted_tokens, total_tokens),
               result |-> [ present |-> TRUE,
                            tokens_generated |-> total_tokens,
                            tokens_accepted |-> ver.accepted_tokens,
                            speculation_length |-> speculation_length,
                            is_complete |-> ver.is_complete,
                            error |-> FALSE ] ]
        ELSE [ kld  |-> signals.kld,
               ent  |-> signals.ent,
               perf |-> perf,
               result |-> [ present |-> TRUE,
                            tokens_generated |-> 0,
                            tokens_accepted |-> 0,
                            speculation_length |-> speculation_length,
                            is_complete |-> FALSE,
                            error |-> TRUE ] ]

\* PerformanceMetrics.update_round_metrics, as far as the model keeps it
update_round_metrics(pm) ==
    [ round_counter |-> Plus(pm.round_counter, 1),
      total_rounds |-> Plus(pm.total_rounds, 1),
      round_metrics_len |-> Plus(pm.round_metrics_len, 1) ]

\* A round whose results still hold the last entry of a sequence that has left
ProcessResultsKeepingStale ==
    /\ phase = "verified"
    /\ LET out(s) == process_verification_result(
                         kld_histories[s], entropy_history[s], sequence_performance[s],
                         draft_results[s], verification_results[s],
                         optimized_sls[IndexOf(active_sequences, s)])
       IN  /\ kld_histories' = [s \in SeqIds |->
                 IF s \in Range(active_sequences) THEN out(s).kld ELSE kld_histories[s]]
           /\ entropy_history' = [s \in SeqIds |->
                 IF s \in Range(active_sequences) THEN out(s).ent ELSE entropy_history[s]]
           /\ sequence_performance' = [s \in SeqIds |->
                 IF s \in Range(active_sequences) THEN out(s).perf ELSE sequence_performance[s]]
           /\ round_results' = [s \in SeqIds |->
                 IF s \in Range(active_sequences) THEN out(s).result ELSE round_results[s]]
    /\ performance_metrics' = update_round_metrics(performance_metrics)
    /\ phase' = "processed"
    /\ UNCHANGED << cfgVars, adapter_kld_histories, adapter_entropy_history, sequence_states,
                    global_stats, active_sequences, max_tokens, context_info, results,
                    rounds_done, speculation_lengths, optimized_sls, sl_cap,
                    draft_results, verification_results, callVars, threadVars, serverVars >>

\* _perform_speculation_round, lines 253-266
ProcessResults ==
    /\ phase = "verified"
    /\ LET out(s) == process_verification_result(
                         kld_histories[s], entropy_history[s], sequence_performance[s],
                         draft_results[s], verification_results[s],
                         optimized_sls[IndexOf(active_sequences, s)])
       IN  /\ kld_histories' = [s \in SeqIds |->
                 IF s \in Range(active_sequences) THEN out(s).kld ELSE kld_histories[s]]
           /\ entropy_history' = [s \in SeqIds |->
                 IF s \in Range(active_sequences) THEN out(s).ent ELSE entropy_history[s]]
           /\ sequence_performance' = [s \in SeqIds |->
                 IF s \in Range(active_sequences) THEN out(s).perf ELSE sequence_performance[s]]
           /\ round_results' = [s \in SeqIds |->
                 IF s \in Range(active_sequences) THEN out(s).result ELSE NoRoundResult]
    /\ performance_metrics' = update_round_metrics(performance_metrics)
    /\ phase' = "processed"
    /\ UNCHANGED << cfgVars, adapter_kld_histories, adapter_entropy_history, sequence_states,
                    global_stats, active_sequences, max_tokens, context_info, results,
                    rounds_done, speculation_lengths, optimized_sls, sl_cap,
                    draft_results, verification_results, callVars, threadVars, serverVars >>

\* decode_batch, line 167: the sequence leaves active_sequences
sequence_done(result, budget) ==
    result.is_complete \/ result.tokens_generated >= budget

\* A result that keeps the counts of the last round only
overwrite(acc, result) ==
    [ present |-> TRUE,
      tokens_generated |-> result.tokens_generated,
      tokens_accepted |-> result.tokens_accepted,
      speculation_rounds |-> Plus(acc.speculation_rounds, 1) ]

\* decode_batch, lines 160-164
accumulate(acc, result) ==
    [ present |-> TRUE,
      tokens_generated |-> Plus(acc.tokens_generated, result.tokens_generated),
      tokens_accepted |-> Plus(acc.tokens_accepted, result.tokens_accepted),
      speculation_rounds |-> Plus(acc.speculation_rounds, 1) ]

\* decode_batch, lines 146-168
UpdateResults ==
    /\ phase = "processed"
    /\ results' = [s \in SeqIds |->
          IF round_results[s].present THEN accumulate(results[s], round_results[s])
          ELSE results[s]]
    /\ active_sequences' =
          Without(active_sequences,
                  {s \in SeqIds : /\ round_results[s].present
                                  /\ sequence_done(round_results[s], max_tokens[s])})
    /\ rounds_done' = Plus(rounds_done, 1)
    /\ draft_results' = [s \in SeqIds |-> NoDraft]
    /\ verification_results' = [s \in SeqIds |-> NoVerification]
    /\ phase' = "loop"
    /\ UNCHANGED << cfgVars, signalVars, adapterVars, decoderVars,
                    max_tokens, context_info, speculation_lengths, optimized_sls, sl_cap,
                    round_results, callVars, threadVars, serverVars >>

\* The batch totals _update_global_stats adds (lines 475-481)
batch_totals(res) ==
    LET got == {s \in SeqIds : res[s].present}
        RECURSIVE Sum(_, _)
        Sum(f, S) == IF S = {} THEN 0
                     ELSE LET x == CHOOSE x \in S : TRUE IN f[x] + Sum(f, S \ {x})
    IN  [ total_sequences_processed |-> Cardinality(got),
          total_tokens_generated    |-> Sum([s \in SeqIds |-> res[s].tokens_generated], got),
          total_tokens_accepted     |-> Sum([s \in SeqIds |-> res[s].tokens_accepted], got),
          total_speculation_rounds  |-> Sum([s \in SeqIds |-> res[s].speculation_rounds], got) ]

\* DSDecoder._update_global_stats run by one thread alone (average_speedup, a
\* function of wall-clock time, is not kept)
update_global_stats(stats, add) ==
    [ total_sequences_processed |-> Plus(stats.total_sequences_processed, add.total_sequences_processed),
      total_tokens_generated    |-> Plus(stats.total_tokens_generated, add.total_tokens_generated),
      total_tokens_accepted     |-> Plus(stats.total_tokens_accepted, add.total_tokens_accepted),
      total_speculation_rounds  |-> Plus(stats.total_speculation_rounds, add.total_speculation_rounds) ]

\* decode_batch, lines 170-183
FinalizeBatch ==
    /\ phase = "loop"
    /\ active_sequences = <<>>
    /\ global_stats' = update_global_stats(global_stats, batch_totals(results))
    /\ phase' = "returned"
    /\ UNCHANGED << cfgVars, signalVars, adapterVars, performance_metrics,
                    active_sequences, max_tokens, context_info, results, rounds_done,
                    speculation_lengths, optimized_sls, sl_cap,
                    draft_results, verification_results, round_results,
                    callVars, threadVars, serverVars >>

\* A per-sequence dict left as it is
keep(per_sequence, empty) == per_sequence

\* dict.clear() on a per-sequence dict: every id reads as a new one again
clear(per_sequence, empty) == [s \in SeqIds |-> empty]

\* DSDecoder.reset_stats, called between two decode_batch calls.  It leaves
\* performance_metrics and the adapter's own signal processor as they are.  (The
\* locals of the decode_batch call that returned are gone by then.)
ResetStats ==
    /\ phase = "returned"
    /\ global_stats' = NewGlobalStats
    /\ active_sequences' = <<>>
    /\ sequence_states' = clear(sequence_states, NoSequenceState)
    /\ sequence_performance' = clear(sequence_performance, NewPerformance)
    /\ kld_histories' = clear(kld_histories, <<>>)
    /\ entropy_history' = clear(entropy_history, <<>>)
    /\ phase' = "idle"
    /\ max_tokens' = [s \in SeqIds |-> 0]
    /\ context_info' = [s \in SeqIds |-> NoContext]
    /\ results' = [s \in SeqIds |-> NoResult]
    /\ speculation_lengths' = <<>>
    /\ optimized_sls' = <<>>
    /\ sl_cap' = 0
    /\ draft_results' = [s \in SeqIds |-> NoDraft]
    /\ verification_results' = [s \in SeqIds |-> NoVerification]
    /\ round_results' = [s \in SeqIds |-> NoRoundResult]
    /\ UNCHANGED << cfgVars, adapter_kld_histories, adapter_entropy_history,
                    performance_metrics, rounds_done, callVars, threadVars, serverVars >>

PredictBatch == PredictBatchWithin(MaxRounds)

GenerateDraft == GenerateDraftFrom([sl \in TokenCounts |-> DraftOutcomes(sl)])

VerifyWithTarget == VerifyWithTargetFrom([n \in TokenCounts |-> VerifyOutcomes(n)])

\* A decoder built with the default DSDecodeConfig
Init ==
    /\ config = DefaultAdapterConfig
    /\ constructed = TRUE
    /\ Fresh

Next ==
    \/ StartBatch
    \/ PredictBatch
    \/ OptimizeBatch
    \/ GenerateDraft
    \/ VerifyWithTarget
    \/ ProcessResults
    \/ UpdateResults
    \/ FinalizeBatch
    \/ ResetStats

Spec == Init /\ [][Next]_vars


\* ------------------------------------------------------------------------
\* decode_batch with collaborators that yield a token every round and never
\* signal completion, followed without a bound on the rounds
\* ------------------------------------------------------------------------

YieldingDraftOutcomes(sl) ==
    { [ failed |-> FALSE, tokens |-> sl, entropy |-> e ] : e \in EntropyValues }

NeverCompleteOutcomes(n) ==
    { [ failed |-> FALSE, accepted_ok |-> TRUE, accepted_tokens |-> n,
        target_logits |-> n, kld |-> 0, is_complete |-> FALSE ] }

PredictBatchUnbounded == PredictBatchWithin(CounterCap + 1)

GenerateDraftYielding == GenerateDraftFrom([sl \in TokenCounts |-> YieldingDraftOutcomes(sl)])

VerifyNeverComplete == VerifyWithTargetFrom([n \in TokenCounts |-> NeverCompleteOutcomes(n)])

NextLive ==
    \/ StartBatch
    \/ PredictBatchUnbounded
    \/ OptimizeBatch
    \/ GenerateDraftYielding
    \/ VerifyNeverComplete
    \/ ProcessResults
    \/ UpdateResults
    \/ FinalizeBatch

\* The positions of decode_batch
Phases ==
    { "idle", "loop", "predicted", "optimized", "drafted", "verified", "processed",
      "returned" }

\* decode_batch has a step to take: it has been called and has not returned.
\* (Every action of NextLive is enabled exactly at its own phase, the two at "loop"
\* between them whenever active_sequences is or is not empty.)
Running ==
    /\ constructed
    /\ phase # "returned"
    /\ (phase = "loop" /\ active_sequences # <<>>) => rounds_done < CounterCap + 1

\* Every step of NextLive moves decode_batch to another phase, so under
\* [][NextLive]_vars a step of Advance is a step of NextLive and the reverse.
Advance == Running /\ \E p \in Phases \ {phase} : phase' = p

\* decode_batch is a coroutine that never suspends on anything but its own steps:
\* the event loop runs it on until it returns.
SpecLive == Init /\ [][NextLive]_vars /\ WF_phase(Advance)


\* ------------------------------------------------------------------------
\* Properties of decode_batch
\* ------------------------------------------------------------------------

\* The metrics the decoder's signal processor holds for a sequence
decoder_metrics(s) == get_sequence_metrics(kld_histories[s], entropy_history[s])

\* C1: once the SignalProcessor has processed a verification step for a sequence
\* (its KL history is not empty), the metrics the Adapter predicts from in the next
\* round are the ones derived from that history, not the new-sequence defaults.
C1_PredictionUsesUpdatedSignals ==
    phase = "predicted" =>
        \A s \in Range(active_sequences) :
            kld_histories[s] # <<>> =>
                sequence_states[s].last_metrics = decoder_metrics(s)

\* C2: no sequence is Active at the head of the round loop with accumulated
\* tokens_generated at or above its max_tokens budget.
C2_NoRoundStartsOverBudget ==
    phase = "loop" =>
        \A s \in Range(active_sequences) :
            results[s].tokens_generated < max_tokens[s]

\* C3: with collaborators that yield at least one token per round and never signal
\* completion, decode_batch returns.
C3_DecodeBatchTerminates == <>(phase = "returned")

\* A sequence whose draft generation or target verification raised in this round
StepFailed(s) == draft_results[s].failed \/ verification_results[s].failed

\* C6: a sequence whose draft generation or verification failed in a round gets an
\* empty round result (no tokens generated or accepted, not complete) carrying an
\* error field, and is still Active when the round ends.
C6_FailedStepIsEmptyRound ==
    [][ (phase = "processed" /\ phase' = "loop") =>
            \A s \in Range(active_sequences) :
                StepFailed(s) =>
                    /\ round_results[s].present
                    /\ round_results[s].tokens_generated = 0
                    /\ round_results[s].tokens_accepted = 0
                    /\ ~round_results[s].is_complete
                    /\ round_results[s].error
                    /\ s \in Range(active_sequences') ]_vars

\* A sequence whose own step failed in this round: a collaborator raised for it,
\* or processing its verification result raised.
OwnFailure(s) == StepFailed(s) \/ ~verification_results[s].accepted_ok

\* The KL samples of the round for a sequence
RoundSamples(s) ==
    [i \in 1..Min2(draft_results[s].logits, verification_results[s].target_logits) |->
        verification_results[s].kld]

\* C7: no failure of one sequence cuts the round short (results are only ever
\* produced from the verification of the whole batch); the round returns a result
\* for every active sequence, and a sequence whose own step did not fail gets the
\* result of its own draft and verification, and its own signal and adapter
\* updates, whatever failed for the others.
C7_FailureIsIsolated ==
    [][ /\ (phase # "processed" /\ phase' = "processed") => phase = "verified"
        /\ (phase = "verified" /\ phase' = "processed") =>
            \A s \in Range(active_sequences) :
                /\ round_results'[s].present
                /\ ~OwnFailure(s) =>
                      /\ round_results'[s] =
                            [ present |-> TRUE,
                              tokens_generated |-> draft_results[s].tokens,
                              tokens_accepted |-> verification_results[s].accepted_tokens,
                              speculation_length |-> optimized_sls[IndexOf(active_sequences, s)],
                              is_complete |-> verification_results[s].is_complete,
                              error |-> FALSE ]
                      /\ kld_histories'[s] =
                            LastK(kld_histories[s] \o RoundSamples(s), long_window_size)
                      /\ entropy_history'[s] = Append(entropy_history[s], draft_results[s].entropy)
                      /\ sequence_performance'[s].recent_acceptance_rates =
                            Append(sequence_performance[s].recent_acceptance_rates,
                                   Rat(verification_results[s].accepted_tokens,
                                       draft_results[s].tokens))
                      /\ sequence_performance'[s].total_tokens_generated =
                            sequence_performance[s].total_tokens_generated + draft_results[s].tokens ]_vars

\* C7 witness: a round in which one sequence's draft generation failed and another
\* sequence got its tokens.
C7_Witness ==
    /\ phase = "processed"
    /\ \E s, u \in Range(active_sequences) :
          /\ draft_results[s].failed
          /\ ~OwnFailure(u)
          /\ round_results[u].tokens_generated > 0
          /\ ~round_results[u].error


\* ------------------------------------------------------------------------
\* A stand-alone SpeculationLengthAdapter: construction, then calls of
\* predict_optimal_sl and update_performance in any order, and verification
\* steps fed to its signal_processor attribute
\* ------------------------------------------------------------------------

\* AdapterConfig instances handed to the constructor: the default, the one of
\* main_with_dsde.py, a narrow one, and one with min above max.
AdapterConfigs ==
    { DefaultAdapterConfig,
      [ DefaultAdapterConfig EXCEPT !.max_speculation_length = 6,
                                    !.default_speculation_length = 3 ],
      [ DefaultAdapterConfig EXCEPT !.min_speculation_length = 2,
                                    !.max_speculation_length = 4,
                                    !.default_speculation_length = 3 ],
      [ DefaultAdapterConfig EXCEPT !.min_speculation_length = 5,
                                    !.max_speculation_length = 3 ] }

\* context_info arguments of predict_optimal_sl
AdapterContexts ==
    { NoContext,
      Context({"task_type", "current_length"}, "code_generation", 100, 10),
      Context({"task_type", "current_length", "temperature"}, "code_generation", 2000, 2),
      Context({"task_type", "temperature"}, "creative_writing", 0, 20) }

\* (speculation_length, accepted_tokens, total_tokens) arguments of
\* update_performance: accepted_tokens <= total_tokens as the decoder passes
\* them, and a caller's report of accepted tokens with total_tokens = 0
PerformanceReports == { <<4, 0, 4>>, <<4, 4, 4>>, <<1, 0, 0>>, <<1, 2, 0>> }

\* Verification steps fed to the signal processor: two distributions each, with a
\* KL sample and the entropy of the first draft distribution (models that agree
\* on a confident draft, models that diverge on an uncertain one)
SignalSteps == { <<2, 0, 0>>, <<2, 4, 5>> }

\* AdapterConfig(...), a dataclass with no __post_init__, and the constructors
\* (SpeculationLengthAdapter.__init__, BatchOptimizer.__init__, DSDecoder.__init__)
\* store the config they are given: none of them rejects one.
config_accepted(cfg) == TRUE

Construct ==
    /\ ~constructed
    /\ config_accepted(config)
    /\ constructed' = TRUE
    /\ UNCHANGED << config, signalVars, adapterVars, decoderVars, batchVars, callVars,
                    threadVars, serverVars >>

\* adapter.predict_optimal_sl(sequence_id, context_info)
ApiPredict ==
    /\ constructed
    /\ ops < MaxOps
    /\ \E s \in SeqIds, ctx \in AdapterContexts :
          LET metrics == adapter_metrics(s)
              ret == predict_optimal_sl(metrics, sequence_performance[s], ctx, config)
          IN  /\ sequence_states' =
                    [sequence_states EXCEPT ![s] = update_sequence_state(@, ret, metrics)]
              /\ last_call' =
                    [ op |-> "predict_optimal_sl", seq |-> s, context |-> ctx,
                      priorities |-> NoPriorities, args |-> <<>>,
                      raw |-> context_adjusted_sl(metrics, sequence_performance[s], ctx, config),
                      ret |-> ret ]
    /\ ops' = ops + 1
    /\ UNCHANGED << cfgVars, signalVars, adapter_kld_histories, adapter_entropy_history,
                    sequence_performance, decoderVars, batchVars, threadVars, serverVars >>

\* update_performance on an adapter whose sequences share one performance record
SharedUpdatePerformance ==
    /\ constructed
    /\ ops < MaxOps
    /\ \E s \in SeqIds, r \in PerformanceReports :
          /\ sequence_performance' =
                [t \in SeqIds |-> update_performance(sequence_performance[s], r[1], r[2], r[3])]
          /\ last_call' = [ NoCall EXCEPT !.op = "update_performance", !.seq = s,
                                          !.args = r ]
    /\ ops' = ops + 1
    /\ UNCHANGED << cfgVars, signalVars, adapter_kld_histories, adapter_entropy_history,
                    sequence_states, decoderVars, batchVars, threadVars, serverVars >>

\* adapter.update_performance(sequence_id, speculation_length, accepted_tokens,
\* total_tokens, processing_time)
ApiUpdatePerformance ==
    /\ constructed
    /\ ops < MaxOps
    /\ \E s \in SeqIds, r \in PerformanceReports :
          /\ sequence_performance' =
                [sequence_performance EXCEPT ![s] = update_performance(@, r[1], r[2], r[3])]
          /\ last_call' = [ NoCall EXCEPT !.op = "update_performance", !.seq = s,
                                          !.args = r ]
    /\ ops' = ops + 1
    /\ UNCHANGED << cfgVars, signalVars, adapter_kld_histories, adapter_entropy_history,
                    sequence_states, decoderVars, batchVars, threadVars, serverVars >>

\* adapter.signal_processor.process_verification_step(sequence_id, ...)
ApiSignalStep ==
    /\ constructed
    /\ ops < MaxOps
    /\ \E s \in SeqIds, step \in SignalSteps :
          LET out == process_verification_step(
                         adapter_kld_histories[s], adapter_entropy_history[s],
                         step[1], step[1], step[2], step[3])
          IN  /\ adapter_kld_histories' = [adapter_kld_histories EXCEPT ![s] = out.kld]
              /\ adapter_entropy_history' = [adapter_entropy_history EXCEPT ![s] = out.ent]
              /\ last_call' = [ NoCall EXCEPT !.op = "process_verification_step",
                                              !.seq = s, !.args = step ]
    /\ ops' = ops + 1
    /\ UNCHANGED << cfgVars, signalVars, sequence_performance, sequence_states,
                    decoderVars, batchVars, threadVars, serverVars >>

InitAdapter ==
    /\ config \in AdapterConfigs
    /\ constructed = FALSE
    /\ Fresh

NextAdapter ==
    \/ Construct
    \/ ApiPredict
    \/ ApiUpdatePerformance
    \/ ApiSignalStep

SpecAdapter == InitAdapter /\ [][NextAdapter]_vars

\* min_speculation_length <= max_speculation_length
ValidConfig(cfg) == cfg.min_speculation_length <= cfg.max_speculation_length

\* C4: under a config with min <= max, whatever calls came before, the value
\* predict_optimal_sl returns is an integer between min_speculation_length and
\* max_speculation_length.
C4_PredictionWithinBounds ==
    (last_call.op = "predict_optimal_sl" /\ ValidConfig(config)) =>
        /\ last_call.ret \in Int
        /\ config.min_speculation_length <= last_call.ret
        /\ last_call.ret <= config.max_speculation_length

\* C4 witness: after an update_performance call on the sequence, a prediction whose
\* context-adjusted value lay above max_speculation_length was returned.
C4_Witness ==
    /\ last_call.op = "predict_optimal_sl"
    /\ ValidConfig(config)
    /\ sequence_performance[last_call.seq].recent_acceptance_rates # <<>>
    /\ RLt(RInt(config.max_speculation_length), last_call.raw)
    /\ last_call.ret = config.max_speculation_length

\* C5: the integer predict_optimal_sl returns is an integer nearest to the clamped
\* context-adjusted length: it is at most one half away from it.
C5_ReturnsNearestInteger ==
    last_call.op = "predict_optimal_sl" =>
        LET clamped == clamp_sl(last_call.raw, config)
            away == RSub(RInt(last_call.ret), clamped)
        IN  RLe(RMul(RInt(2), <<Abs(away[1]), away[2]>>), RInt(1))

\* C8: no prediction is ever computed from a config with
\* min_speculation_length > max_speculation_length: the constructor rejected it.
C8_InvalidConfigRejected ==
    /\ constructed => ValidConfig(config)
    /\ last_call.op = "predict_optimal_sl" => ValidConfig(config)


\* ------------------------------------------------------------------------
\* A stand-alone BatchOptimizer (adapter.py): calls of
\* optimize_batch_speculation_lengths
\* ------------------------------------------------------------------------

\* The AdapterConfig instances with min <= max, and the default one with a
\* straggler_tolerance of 1.0
BatchConfigs ==
    { cfg \in AdapterConfigs : ValidConfig(cfg) }
    \cup { [ DefaultAdapterConfig EXCEPT !.straggler_tolerance = <<1, 1>> ] }

\* predicted_sls arguments: non-empty lists of lengths an adapter can predict
PredictedLists ==
    UNION { [1..n -> 1..DefaultAdapterConfig.max_speculation_length] : n \in 1..MaxBatch }

\* sequence_priorities arguments for n sequences: None, all zero, equal, rising
PriorityLists(n) ==
    { NoPriorities,
      Priorities([i \in 1..n |-> 0]),
      Priorities([i \in 1..n |-> 1]),
      Priorities([i \in 1..n |-> i]) }

\* optimizer.optimize_batch_speculation_lengths(predicted_sls, sequence_priorities).
\* A BatchOptimizer keeps nothing from one call to the next: one call is followed.
ApiOptimizeBatch ==
    /\ constructed
    /\ last_call.op = "none"
    /\ \E predicted_sls \in PredictedLists :
          \E sequence_priorities \in PriorityLists(Len(predicted_sls)) :
             LET out == optimize_batch_speculation_lengths(predicted_sls,
                                                           sequence_priorities, config)
             IN  /\ speculation_lengths' = predicted_sls
                 /\ optimized_sls' = out[1]
                 /\ sl_cap' = out[2]
                 /\ last_call' = [ NoCall EXCEPT !.op = "optimize_batch_speculation_lengths",
                                                 !.priorities = sequence_priorities ]
    /\ UNCHANGED << cfgVars, signalVars, adapterVars, decoderVars,
                    phase, active_sequences, max_tokens, context_info, results, rounds_done,
                    draft_results, verification_results, round_results, ops, threadVars,
                    serverVars >>

InitBatch ==
    /\ config \in BatchConfigs
    /\ constructed = TRUE
    /\ Fresh

NextBatch == ApiOptimizeBatch

SpecBatch == InitBatch /\ [][NextBatch]_vars

\* The weights of the mean the cap is taken from: the priorities, or one each
MeanWeights ==
    IF last_call.priorities.given THEN last_call.priorities.weights
    ELSE [i \in 1..Len(speculation_lengths) |-> 1]

\* The predicted lengths, each cut to the cap
CutToCap == [i \in 1..Len(speculation_lengths) |-> Min2(speculation_lengths[i], sl_cap)]

\* C10: for a non-empty batch, sl_cap is an integer nearest to the (priority-
\* weighted) mean of the predicted lengths, clamped to [min_sl, max_sl] (a total
\* weight of zero gives the mean 0); where the cut lengths do not meet the
\* smoothing condition every optimized length is min(predicted, sl_cap); a batch
\* of one length k within [min_sl, max_sl] (with no priorities, or a positive
\* total weight) returns cap k and the lengths unchanged; and [2,3,6] under the
\* default config returns ([2,3,4], 4).
C10_CapIsClampedRoundedMean ==
    last_call.op = "optimize_batch_speculation_lengths" =>
        LET total_weight == SumInt(MeanWeights)
            weighted_sum == WeightedSum(speculation_lengths, MeanWeights)
            k == speculation_lengths[1]
        IN  /\ \E nearest \in 0..DefaultAdapterConfig.max_speculation_length :
                  /\ IF total_weight = 0 THEN nearest = 0
                     ELSE 2 * Abs(nearest * total_weight - weighted_sum) <= total_weight
                  /\ sl_cap = Max2(config.min_speculation_length,
                                   Min2(config.max_speculation_length, nearest))
            /\ ~high_variance(CutToCap) => optimized_sls = CutToCap
            /\ ( /\ \A i \in 1..Len(speculation_lengths) : speculation_lengths[i] = k
                 /\ config.min_speculation_length <= k
                 /\ k <= config.max_speculation_length
                 /\ total_weight > 0 )
               => (sl_cap = k /\ optimized_sls = speculation_lengths)
            /\ ( /\ speculation_lengths = <<2, 3, 6>>
                 /\ config = DefaultAdapterConfig
                 /\ ~last_call.priorities.given )
               => (optimized_sls = <<2, 3, 4>> /\ sl_cap = 4)

\* C10 witness: the batch [2,3,6] under the default config, cut to the cap 4.
C10_Witness ==
    /\ last_call.op = "optimize_batch_speculation_lengths"
    /\ ~last_call.priorities.given
    /\ config = DefaultAdapterConfig
    /\ speculation_lengths = <<2, 3, 6>>
    /\ optimized_sls = <<2, 3, 4>>
    /\ sl_cap = 4


\* ------------------------------------------------------------------------
\* Two request threads of the chat handler (main_with_dsde.py, async_mode
\* 'threading') whose decode_batch calls on the shared DSDecoder reach
\* _update_global_stats.  Each `self.global_stats[key] += value` reads the entry,
\* adds, and writes it back; no lock is held, so the threads' reads and writes
\* interleave.
\* ------------------------------------------------------------------------

\* The counters of global_stats in the order _update_global_stats adds to them
StatKeys ==
    << "total_sequences_processed", "total_tokens_generated",
       "total_tokens_accepted", "total_speculation_rounds" >>

\* The totals of a finished batch: one sequence, or two
BatchTotals ==
    { [ total_sequences_processed |-> 1, total_tokens_generated |-> 4,
        total_tokens_accepted |-> 2, total_speculation_rounds |-> 1 ],
      [ total_sequences_processed |-> 2, total_tokens_generated |-> 12,
        total_tokens_accepted |-> 8, total_speculation_rounds |-> 3 ] }

\* decode_batch of thread t reaches _update_global_stats (core.py, line 183)
ThreadEnter(t) ==
    /\ constructed
    /\ thread_pc[t].at = "idle"
    /\ \E totals \in BatchTotals : thread_batch' = [thread_batch EXCEPT ![t] = totals]
    /\ thread_pc' = [thread_pc EXCEPT ![t] = [ at |-> "load", key |-> 1 ]]
    /\ UNCHANGED << cfgVars, signalVars, adapterVars, decoderVars, batchVars, callVars,
                    thread_loaded, serverVars >>

\* self.global_stats[key] is read
ThreadLoad(t) ==
    /\ thread_pc[t].at = "load"
    /\ thread_loaded' = [thread_loaded EXCEPT ![t] = global_stats[StatKeys[thread_pc[t].key]]]
    /\ thread_pc' = [thread_pc EXCEPT ![t].at = "store"]
    /\ UNCHANGED << cfgVars, signalVars, adapterVars, decoderVars, batchVars, callVars,
                    thread_batch, serverVars >>

\* the sum is written to self.global_stats[key]
ThreadStore(t) ==
    /\ thread_pc[t].at = "store"
    /\ LET key == StatKeys[thread_pc[t].key]
       IN  global_stats' =
               [global_stats EXCEPT ![key] = Plus(thread_loaded[t], thread_batch[t][key])]
    /\ thread_pc' =
          [thread_pc EXCEPT ![t] =
              IF @.key = Len(StatKeys) THEN [ at |-> "done", key |-> @.key ]
              ELSE [ at |-> "load", key |-> @.key + 1 ]]
    /\ UNCHANGED << cfgVars, signalVars, adapterVars, performance_metrics, batchVars,
                    callVars, thread_loaded, thread_batch, serverVars >>

NextThreads ==
    \E t \in Threads :
        \/ ThreadEnter(t)
        \/ ThreadLoad(t)
        \/ ThreadStore(t)

SpecThreads == Init /\ [][NextThreads]_vars

\* C9: when both decode_batch calls have finished, each counter of global_stats
\* is the sum of what the two batches contributed.
C9_NoLostIncrement ==
    (\A t \in Threads : thread_pc[t].at = "done") =>
        \A i \in 1..Len(StatKeys) :
            global_stats[StatKeys[i]] = thread_batch[1][StatKeys[i]] + thread_batch[2][StatKeys[i]]

\* ------------------------------------------------------------------------
\* Further properties of the stand-alone BatchOptimizer
\* ------------------------------------------------------------------------

\* C11: when the (weighted) mean of the predicted lengths has fractional part
\* exactly one half, sl_cap is the next integer up, clamped to [min_sl, max_sl].
C11_CapRoundsHalfUp ==
    last_call.op = "optimize_batch_speculation_lengths" =>
        LET total_weight == SumInt(MeanWeights)
            weighted_sum == WeightedSum(speculation_lengths, MeanWeights)
        IN  (total_weight > 0 /\ (2 * weighted_sum) % (2 * total_weight) = total_weight) =>
                sl_cap = Max2(config.min_speculation_length,
                              Min2(config.max_speculation_length,
                                   (weighted_sum \div total_weight) + 1))

\* The predicted lengths all lie within [min_sl, max_sl]
PredictedWithinBounds ==
    \A i \in 1..Len(speculation_lengths) :
        /\ config.min_speculation_length <= speculation_lengths[i]
        /\ speculation_lengths[i] <= config.max_speculation_length

\* C12: for predicted lengths within [min_sl, max_sl], no optimized length is
\* above its predicted length or above sl_cap, and a predicted length above
\* sl_cap comes out strictly smaller.
C12_NeverIncreasesALength ==
    (last_call.op = "optimize_batch_speculation_lengths" /\ PredictedWithinBounds) =>
        \A i \in 1..Len(speculation_lengths) :
            /\ optimized_sls[i] <= speculation_lengths[i]
            /\ optimized_sls[i] <= sl_cap
            /\ speculation_lengths[i] > sl_cap => optimized_sls[i] < speculation_lengths[i]

\* C13: smoothing works on the lengths cut to the cap, with one mean and one std
\* over them.  If std > 0.5 * mean, exactly the lengths more than
\* straggler_tolerance * std away from the mean are replaced by an integer
\* nearest to sl + 0.3 * (mean - sl), clamped to [1, max_sl], and the others pass
\* unchanged; if std <= 0.5 * mean nothing changes.  (With n lengths of sum S and
\* sum of squares Q: std > mean/2 iff 4nQ > 5S^2; |sl - mean| > (a/b) std iff
\* b^2 (n sl - S)^2 > a^2 (nQ - S^2); sl + 0.3 (mean - sl) = (7 n sl + 3 S) / 10n.)
C13_SmoothingIsExact ==
    last_call.op = "optimize_batch_speculation_lengths" =>
        LET n == Len(CutToCap)
            S == SumInt(CutToCap)
            Q == SumSq(CutToCap)
            a == config.straggler_tolerance[1]
            b == config.straggler_tolerance[2]
            smoothing == 4 * n * Q > 5 * S * S
            straggler(i) ==
                b * b * (n * CutToCap[i] - S) * (n * CutToCap[i] - S) > a * a * (n * Q - S * S)
            nearest(r, i) == Abs(10 * n * r - (7 * n * CutToCap[i] + 3 * S)) <= 5 * n
        IN  \A i \in 1..n :
                IF smoothing /\ straggler(i)
                THEN \E r \in 0..(DefaultAdapterConfig.max_speculation_length + 1) :
                        /\ nearest(r, i)
                        /\ optimized_sls[i] =
                               Max2(1, Min2(config.max_speculation_length, r))
                ELSE optimized_sls[i] = CutToCap[i]

\* C13 witness: a batch in which smoothing replaced one length and let another
\* pass unchanged.
C13_Witness ==
    /\ last_call.op = "optimize_batch_speculation_lengths"
    /\ \E i, j \in 1..Len(speculation_lengths) :
          /\ optimized_sls[i] # CutToCap[i]
          /\ optimized_sls[j] = CutToCap[j]

\* ------------------------------------------------------------------------
\* Further properties of the stand-alone SpeculationLengthAdapter
\* ------------------------------------------------------------------------

\* The multiplier a context field stands for when it is present, and 1 when the
\* field is absent
FieldMultiplier(ctx, field) ==
    IF field \notin ctx.keys THEN <<1, 1>>
    ELSE IF field = "task_type"
    THEN (IF ctx.task_type = "code_generation" THEN <<11, 10>>
          ELSE IF ctx.task_type = "creative_writing" THEN <<9, 10>>
          ELSE IF ctx.task_type = "dialogue" THEN <<19, 20>>
          ELSE <<1, 1>>)
    ELSE IF field = "current_length"
    THEN (IF ctx.current_length > 1000 THEN <<21, 20>>
          ELSE IF ctx.current_length < 50 THEN <<19, 20>>
          ELSE <<1, 1>>)
    ELSE (IF ctx.temperature < 3 THEN <<11, 10>>
          ELSE IF ctx.temperature > 15 THEN <<9, 10>>
          ELSE <<1, 1>>)

\* C14: the context-adjusted length of a prediction made with a non-empty context
\* is the history-adjusted length times the multipliers of the fields that are
\* present; an absent field multiplies by nothing.
C14_AbsentFieldIsNoOp ==
    (last_call.op = "predict_optimal_sl" /\ last_call.context.keys # {}) =>
        LET s == last_call.seq
            history_adjusted ==
                adjust_for_history(sequence_performance[s],
                                   predict_from_stability(adapter_metrics(s), config))
        IN  last_call.raw =
                RMul(RMul(RMul(history_adjusted,
                               FieldMultiplier(last_call.context, "task_type")),
                          FieldMultiplier(last_call.context, "current_length")),
                     FieldMultiplier(last_call.context, "temperature"))

\* ---------------------------------------------------------------------------
\* reset_stats
\* ---------------------------------------------------------------------------

\* C15: after any rounds followed by DSDecoder.reset_stats, every per-sequence
\* history (KL, entropy, acceptance and speculation-length history, running
\* totals, last prediction) is empty, and predict_optimal_sl for a sequence id
\* seen before returns what it returns for a never-seen id with the same context.
C15_ResetClearsSequenceState ==
    phase = "idle" =>
        \A s \in SeqIds :
            /\ kld_histories[s] = <<>>
            /\ entropy_history[s] = <<>>
            /\ adapter_kld_histories[s] = <<>>
            /\ adapter_entropy_history[s] = <<>>
            /\ sequence_performance[s] = NewPerformance
            /\ sequence_states[s] = NoSequenceState
            /\ \A ctx \in DecodeContexts \cup AdapterContexts :
                   predict_optimal_sl(adapter_metrics(s), sequence_performance[s],
                                      ctx, config)
                   = predict_optimal_sl(get_sequence_metrics(<<>>, <<>>), NewPerformance,
                                        ctx, config)

\* reset_stats has run after at least one completed round
C15_Witness ==
    /\ phase = "idle"
    /\ rounds_done > 0
    /\ global_stats = NewGlobalStats
    /\ active_sequences = <<>>

\* ---------------------------------------------------------------------------
\* One long-lived sequence: the signal processor and the adapter fed for many steps
\* ---------------------------------------------------------------------------

MaxHistoryOps == 12

\* Verification steps (number of distributions, KL sample, entropy): one
\* distribution pair, and more pairs in one step than the KL history holds
LongSignalSteps == { <<1, 0, 0>>, <<long_window_size + 1, 4, 5>> }

\* (speculation_length, accepted_tokens, total_tokens)
LongPerformanceReports == { <<4, 0, 4>>, <<2, 2, 2>> }

\* signal_processor.process_verification_step("s1", ...)
LongSignalStep ==
    /\ ops < MaxHistoryOps
    /\ \E step \in LongSignalSteps :
          LET out == process_verification_step(
                         kld_histories["s1"], entropy_history["s1"],
                         step[1], step[1], step[2], step[3])
          IN  /\ kld_histories' = [kld_histories EXCEPT !["s1"] = out.kld]
              /\ entropy_history' = [entropy_history EXCEPT !["s1"] = out.ent]
              /\ last_call' = [ NoCall EXCEPT !.op = "process_verification_step",
                                              !.seq = "s1", !.args = step ]
    /\ ops' = ops + 1
    /\ UNCHANGED << cfgVars, adapterVars, decoderVars, batchVars, threadVars, serverVars >>

\* adapter.update_performance("s1", ...)
LongUpdatePerformance ==
    /\ ops < MaxHistoryOps
    /\ \E r \in LongPerformanceReports :
          /\ sequence_performance' =
                [sequence_performance EXCEPT !["s1"] = update_performance(@, r[1], r[2], r[3])]
          /\ last_call' = [ NoCall EXCEPT !.op = "update_performance", !.seq = "s1",
                                          !.args = r ]
    /\ ops' = ops + 1
    /\ UNCHANGED << cfgVars, signalVars, adapter_kld_histories, adapter_entropy_history,
                    sequence_states, decoderVars, batchVars, threadVars, serverVars >>

InitHistory ==
    /\ config = DefaultAdapterConfig
    /\ constructed = TRUE
    /\ Fresh

NextHistory ==
    \/ LongSignalStep
    \/ LongUpdatePerformance

SpecHistory == InitHistory /\ [][NextHistory]_vars

\* The last k elements of s, k <= Len(s)
Suffix(s, k) == [i \in 1..k |-> s[Len(s) - k + i]]

\* What a buffer of the given capacity holds after the samples were inserted
MostRecent(before, inserted, capacity) ==
    Suffix(before \o inserted, Min2(capacity, Len(before) + Len(inserted)))

HistoriesBounded ==
    \A s \in SeqIds :
        /\ Len(kld_histories[s]) <= long_window_size
        /\ Len(entropy_history[s]) <= 10
        /\ Len(sequence_performance[s].recent_acceptance_rates) <= 10
        /\ Len(sequence_performance[s].recent_speculation_lengths) <= 10
        /\ Len(sequence_performance[s].recent_acceptance_rates)
               = Len(sequence_performance[s].recent_speculation_lengths)

InsertedInOrder ==
    LET s == last_call'.seq
        a == last_call'.args
    IN  /\ last_call'.op = "process_verification_step" =>
              /\ kld_histories'[s] =
                     MostRecent(kld_histories[s], [i \in 1..a[1] |-> a[2]], long_window_size)
              /\ entropy_history'[s] = MostRecent(entropy_history[s], << a[3] >>, 10)
        /\ last_call'.op = "update_performance" =>
              /\ sequence_performance'[s].recent_acceptance_rates =
                     MostRecent(sequence_performance[s].recent_acceptance_rates,
                                << Rat(a[2], a[3]) >>, 10)
              /\ sequence_performance'[s].recent_speculation_lengths =
                     MostRecent(sequence_performance[s].recent_speculation_lengths,
                                << a[1] >>, 10)

\* C16: every per-sequence history is a bounded ring buffer: the KL history has
\* at most long_window_size entries, the entropy history at most 10, the
\* acceptance-rate and speculation-length histories at most 10 each and equally
\* many; each holds the most recent samples in insertion order, the oldest being
\* evicted on insert, also when one step inserts more KL samples than fit.
C16_HistoriesAreRingBuffers == [](HistoriesBounded) /\ [][InsertedInOrder]_vars

\* A step that inserted more KL samples than the capacity onto a non-empty
\* history, an eleventh entropy sample, and an eleventh performance report
C16_Witness ==
    \/ /\ last_call.op = "process_verification_step"
       /\ last_call.args[1] > long_window_size
       /\ Len(entropy_history["s1"]) > 1
       /\ Len(kld_histories["s1"]) = long_window_size
    \/ /\ ops > 10
       /\ sequence_performance["s1"] = NewPerformance
       /\ Len(entropy_history["s1"]) = 10
    \/ /\ sequence_performance["s1"].total_tokens_generated > 20
       /\ sequence_performance["s1"].total_tokens_accepted > 20
       /\ Len(sequence_performance["s1"].recent_acceptance_rates) = 10

\* ---------------------------------------------------------------------------
\* Isolation of per-sequence state
\* ---------------------------------------------------------------------------

\* Everything kept for a sequence with these histories and this performance
\* record, and what predict_optimal_sl would return for it next
sequence_view(kld, entropy, performance) ==
    [ kld         |-> kld,
      entropy     |-> entropy,
      performance |-> performance,
      prediction  |-> [ctx \in AdapterContexts |->
                          predict_optimal_sl(get_sequence_metrics(kld, entropy),
                                             performance, ctx, config)] ]

OthersUntouched ==
    last_call'.op \in {"process_verification_step", "update_performance"} =>
        \A b \in SeqIds \ {last_call'.seq} :
            sequence_view(adapter_kld_histories'[b], adapter_entropy_history'[b],
                          sequence_performance'[b])
            = sequence_view(adapter_kld_histories[b], adapter_entropy_history[b],
                            sequence_performance[b])

\* C17: process_verification_step and update_performance for sequence A leave
\* every other sequence B's KL history, entropy history, acceptance and
\* speculation-length history, running totals and next predict_optimal_sl result
\* unchanged, under any interleaving of operations on A and B.
C17_SequencesAreIsolated == [][OthersUntouched]_vars

\* A call for s1 made while s2 already has signal and performance history
C17_Witness ==
    /\ last_call.op \in {"process_verification_step", "update_performance"}
    /\ last_call.seq = "s1"
    /\ adapter_kld_histories["s2"] # <<>>
    /\ sequence_performance["s2"] # NewPerformance
    /\ adapter_kld_histories["s1"] # adapter_kld_histories["s2"]
    /\ sequence_performance["s1"] # sequence_performance["s2"]

\* ---------------------------------------------------------------------------
\* update_performance with total_tokens = 0
\* ---------------------------------------------------------------------------

\* The acceptance rate the last update_performance call appended
recorded_rate(perf) == perf.recent_acceptance_rates[Len(perf.recent_acceptance_rates)]

\* C18: update_performance called with total = 0 does not raise and appends
\* acceptance rate 0.0 to the sequence's acceptance-rate history, for every
\* accepted count passed with it.
C18_ZeroTotalRecordsZero ==
    (last_call.op = "update_performance" /\ last_call.args[3] = 0) =>
        /\ sequence_performance[last_call.seq].recent_acceptance_rates # <<>>
        /\ recorded_rate(sequence_performance[last_call.seq]) = <<0, 1>>

\* ---------------------------------------------------------------------------
\* The round barrier of decode_batch
\* ---------------------------------------------------------------------------

\* Between the predictions of a round and the processing of its results
InRound == phase \in {"predicted", "optimized", "drafted", "verified"}

\* Every active sequence has gone through the same number of rounds of this call
InLockstep ==
    \A s, t \in Range(active_sequences) :
        results[s].speculation_rounds = results[t].speculation_rounds

\* While a round is under way the predictions of all active sequences, and then
\* the cap over all of them, are those of the per-sequence state as the previous
\* round left it; each stage has an answer for every active sequence before the
\* next stage starts.
RoundIsStaged ==
    /\ InLockstep
    /\ InRound =>
          /\ Len(speculation_lengths) = Len(active_sequences)
          /\ \A i \in 1..Len(active_sequences) :
                LET s == active_sequences[i]
                IN  speculation_lengths[i] =
                        predict_optimal_sl(adapter_metrics(s), sequence_performance[s],
                                           context_info[s], config)
    /\ phase \in {"optimized", "drafted", "verified"} =>
          << optimized_sls, sl_cap >> =
              optimize_batch_speculation_lengths(speculation_lengths, NoPriorities, config)
    /\ phase \in {"predicted", "optimized"} =>
          \A s \in SeqIds : ~draft_results[s].present /\ ~verification_results[s].present
    /\ phase = "drafted" =>
          \A s \in SeqIds : /\ draft_results[s].present <=> s \in Range(active_sequences)
                            /\ ~verification_results[s].present
    /\ phase = "verified" =>
          \A s \in Range(active_sequences) :
              draft_results[s].present /\ verification_results[s].present
    /\ phase = "processed" =>
          \A s \in SeqIds : round_results[s].present <=> s \in Range(active_sequences)

\* A round starts only from the loop head, with no step of the round before
\* pending, and per-sequence state changes only when a whole round is processed
\* (or reset_stats runs after the call returned).
RoundsDoNotOverlap ==
    /\ (phase' = "predicted" /\ phase # "predicted") =>
          /\ phase = "loop"
          /\ \A s \in SeqIds : ~draft_results[s].present /\ ~verification_results[s].present
          /\ \A s \in Range(active_sequences) :
                results[s].speculation_rounds > 0 => round_results[s].present
    /\ << kld_histories, entropy_history, sequence_performance >>'
           # << kld_histories, entropy_history, sequence_performance >>
          => phase \in {"verified", "returned"}

\* C19: in every round all active sequences' predictions and the batch cap are
\* computed from the state left by the previous round before any sequence's
\* draft, verification or state update of this round, and no step of round r+1
\* for any sequence happens before every active sequence's round-r step has
\* completed or failed.
C19_RoundBarrier == [](RoundIsStaged) /\ [][RoundsDoNotOverlap]_vars

\* The second round of a two-sequence batch under way, one sequence's step of
\* the first round having failed and the other's completed
C19_Witness ==
    /\ phase = "drafted"
    /\ rounds_done = 1
    /\ Len(active_sequences) = 2
    /\ round_results["s1"].present /\ round_results["s2"].present
    /\ \E s, t \in SeqIds : round_results[s].error /\ ~round_results[t].error
    /\ sequence_performance["s1"] # sequence_performance["s2"]

\* ---------------------------------------------------------------------------
\* WVIRCalculator.calculate_wvir on its own
\* ---------------------------------------------------------------------------

MaxOld == 1

MaxFill == 12

MaxRecent == 3

\* KL samples
KldValues == {0, 1, 4}

\* All lists of at most n KL samples
KldLists(n) == UNION { [1..k -> KldValues] : k \in 0..n }

\* n times the sample x
Fill(x, n) == [i \in 1..n |-> x]

\* KL histories handed to calculate_wvir: old samples, a stretch of one repeated
\* sample, and recent samples; up to MaxOld + MaxFill + MaxRecent long
WvirHistories ==
    { old \o Fill(x, n) \o recent :
        old \in KldLists(MaxOld), x \in KldValues, n \in 0..MaxFill,
        recent \in KldLists(MaxRecent) }

\* WVIRCalculator().calculate_wvir(kld_history)
ApiCalculateWvir ==
    /\ last_call.op = "none"
    /\ last_call' = [ NoCall EXCEPT !.op = "calculate_wvir", !.seq = "s1",
                                    !.raw = calculate_wvir(kld_histories["s1"]) ]
    /\ UNCHANGED << cfgVars, signalVars, adapterVars, decoderVars, batchVars, ops,
                    threadVars, serverVars >>

InitWvir ==
    /\ config = DefaultAdapterConfig
    /\ constructed = TRUE
    /\ \E h \in WvirHistories :
          kld_histories = [s \in SeqIds |-> IF s = "s1" THEN h ELSE <<>>]
    /\ entropy_history = [s \in SeqIds |-> <<>>]
    /\ adapter_kld_histories = [s \in SeqIds |-> <<>>]
    /\ adapter_entropy_history = [s \in SeqIds |-> <<>>]
    /\ sequence_performance = [s \in SeqIds |-> NewPerformance]
    /\ sequence_states = [s \in SeqIds |-> NoSequenceState]
    /\ global_stats = NewGlobalStats
    /\ performance_metrics = NewPerformanceMetrics
    /\ phase = "idle"
    /\ active_sequences = <<>>
    /\ max_tokens = [s \in SeqIds |-> 0]
    /\ context_info = [s \in SeqIds |-> NoContext]
    /\ results = [s \in SeqIds |-> NoResult]
    /\ rounds_done = 0
    /\ speculation_lengths = <<>>
    /\ optimized_sls = <<>>
    /\ sl_cap = 0
    /\ draft_results = [s \in SeqIds |-> NoDraft]
    /\ verification_results = [s \in SeqIds |-> NoVerification]
    /\ round_results = [s \in SeqIds |-> NoRoundResult]
    /\ last_call = NoCall
    /\ ops = 0
    /\ thread_pc = [t \in Threads |-> [ at |-> "idle", key |-> 1 ]]
    /\ thread_loaded = [t \in Threads |-> 0]
    /\ thread_batch = [t \in Threads |-> NewGlobalStats]
    /\ system_metrics = NewSystemMetrics
    /\ metrics_lock = Unlocked
    /\ worker = [t \in Threads |-> IdleWorker]

NextWvir == ApiCalculateWvir

SpecWvir == InitWvir /\ [][NextWvir]_vars

\* The samples of a window are all the same: its variance is zero
ZeroVariance(window) == \A i, j \in 1..Len(window) : window[i] = window[j]

\* kld_history[-size:]
Window(kld_history, size) ==
    [i \in 1..Min2(size, Len(kld_history)) |->
        kld_history[Len(kld_history) - Min2(size, Len(kld_history)) + i]]

\* C20: calculate_wvir returns a value in [0,10] for every KL history; a history
\* whose short window and long window both have zero variance returns 0.0, and
\* when the long-window variance is 0 the result is 1.0 if the short-window
\* variance is positive and 0.0 otherwise.
C20_WvirInRange ==
    last_call.op = "calculate_wvir" =>
        LET history == kld_histories["s1"]
            short_window == Window(history, short_window_size)
            long_window  == Window(history, long_window_size)
            wvir == last_call.raw
        IN  /\ wvir[2] > 0 /\ 0 <= wvir[1] /\ wvir[1] <= 10 * wvir[2]
            /\ (ZeroVariance(short_window) /\ ZeroVariance(long_window)) => wvir[1] = 0
            /\ ZeroVariance(long_window) =>
                  wvir = IF ~ZeroVariance(short_window) THEN <<1, 1>> ELSE <<0, 1>>

\* A history longer than the long window whose last long_window_size samples are
\* all the same while an older one differs, answered with 0
C20_Witness ==
    /\ last_call.op = "calculate_wvir"
    /\ Len(kld_histories["s1"]) > long_window_size
    /\ ZeroVariance(Window(kld_histories["s1"], long_window_size))
    /\ ~ZeroVariance(kld_histories["s1"])
    /\ last_call.raw = <<0, 1>>

\* ---------------------------------------------------------------------------
\* update_system_metrics (main_with_dsde.py) called from concurrent threads
\* ---------------------------------------------------------------------------

\* The arguments of a call: an orchestration result only (as test_thread_safety
\* passes), a DSDE result only, or both (as the chat handler passes)
WorkerArguments ==
    { [ orchestration_result |-> TRUE,  dsde_result |-> FALSE ],
      [ orchestration_result |-> FALSE, dsde_result |-> TRUE ],
      [ orchestration_result |-> TRUE,  dsde_result |-> TRUE ] }

\* orchestration_result.processing_time, in tenths of a second
ProcessingTime == 1

\* dsde_result.tokens_generated
ResultTokens == 4

\* The with block is left, by return or by an exception: the lock is released
LeaveLocked(t, how) ==
    /\ metrics_lock' = Unlocked
    /\ worker' = [worker EXCEPT ![t].at = how]

\* Thread t calls update_system_metrics(orchestration_result, dsde_result)
WorkerCall(t) ==
    /\ worker[t].at \in {"idle", "returned", "raised"}
    /\ ops < MaxOps
    /\ \E a \in WorkerArguments :
          worker' = [worker EXCEPT ![t] = [ at |-> "acquire" ] @@ a]
    /\ ops' = ops + 1
    /\ UNCHANGED << cfgVars, signalVars, adapterVars, decoderVars, batchVars, last_call,
                    threadVars, system_metrics, metrics_lock >>

\* with metrics_lock: (line 264)
WorkerAcquire(t) ==
    /\ worker[t].at = "acquire"
    /\ metrics_lock = Unlocked
    /\ metrics_lock' = t
    /\ worker' = [worker EXCEPT ![t].at = "count"]
    /\ UNCHANGED << cfgVars, signalVars, adapterVars, decoderVars, batchVars, callVars,
                    threadVars, system_metrics >>

\* system_metrics['total_queries'] += 1 (line 265)
WorkerCount(t) ==
    /\ worker[t].at = "count"
    /\ system_metrics' = [system_metrics EXCEPT !.total_queries = Plus(@, 1)]
    /\ worker' = [worker EXCEPT ![t].at = "orchestration"]
    /\ UNCHANGED << cfgVars, signalVars, adapterVars, decoderVars, batchVars, callVars,
                    threadVars, metrics_lock >>

\* if orchestration_result: ... (lines 268-276; specialist_responses is empty)
WorkerOrchestration(t) ==
    /\ worker[t].at = "orchestration"
    /\ system_metrics' =
          IF worker[t].orchestration_result
          THEN LET n == system_metrics.total_queries
                   total_time == RAdd(RMul(system_metrics.avg_response_time, RInt(n - 1)),
                                      RInt(ProcessingTime))
               IN  [system_metrics EXCEPT !.avg_response_time = RDiv(total_time, RInt(n))]
          ELSE system_metrics
    /\ worker' = [worker EXCEPT ![t].at = "dsde"]
    /\ UNCHANGED << cfgVars, signalVars, adapterVars, decoderVars, batchVars, callVars,
                    threadVars, metrics_lock >>

\* if dsde_result: ... (lines 279-294).  'dsde_metrics' is in system_metrics from
\* the start, so lines 281-288 do not run, and += on a key the dict does not hold
\* raises KeyError.
WorkerDsde(t) ==
    /\ worker[t].at = "dsde"
    /\ IF ~worker[t].dsde_result
       THEN /\ worker' = [worker EXCEPT ![t].at = "averages"]
            /\ UNCHANGED << system_metrics, metrics_lock >>
       ELSE IF ~system_metrics.dsde_metrics.initialised
            THEN /\ LeaveLocked(t, "raised")
                 /\ UNCHANGED system_metrics
            ELSE /\ system_metrics' =
                       [system_metrics EXCEPT
                           !.dsde_metrics.total_tokens_generated = Plus(@, ResultTokens),
                           !.dsde_metrics.processed_sequences = Plus(@, 1)]
                 /\ worker' = [worker EXCEPT ![t].at = "averages"]
                 /\ UNCHANGED metrics_lock
    /\ UNCHANGED << cfgVars, signalVars, adapterVars, decoderVars, batchVars, callVars,
                    threadVars >>

\* n = dsde_metrics['processed_sequences'] ... (lines 297-303), outside the
\* if dsde_result block: without a DSDE result the local dsde_metrics was never
\* bound and reading it raises UnboundLocalError.
WorkerAverages(t) ==
    /\ worker[t].at = "averages"
    /\ IF worker[t].dsde_result
       THEN LeaveLocked(t, "returned")
       ELSE LeaveLocked(t, "raised")
    /\ UNCHANGED << cfgVars, signalVars, adapterVars, decoderVars, batchVars, callVars,
                    threadVars, system_metrics >>

NextMetrics ==
    \E t \in Threads :
        \/ WorkerCall(t)
        \/ WorkerAcquire(t)
        \/ WorkerCount(t)
        \/ WorkerOrchestration(t)
        \/ WorkerDsde(t)
        \/ WorkerAverages(t)

SpecMetrics == Init /\ [][NextMetrics]_vars

\* No thread is inside update_system_metrics
NoCallInProgress == \A t \in Threads : worker[t].at \in {"idle", "returned", "raised"}

\* C21: called from any number of concurrent threads with an orchestration result
\* and no DSDE result (or with a DSDE result), every call of update_system_metrics
\* completes without raising, and afterwards total_queries equals the number of
\* calls made.
C21_MetricsUpdateIsTotal ==
    /\ \A t \in Threads : worker[t].at # "raised"
    /\ NoCallInProgress => system_metrics.total_queries = ops

\* ---------------------------------------------------------------------------
\* The DSDecodeResult of each sequence
\* ---------------------------------------------------------------------------

\* The sequences of the batch decode_batch was called with
input_sequences == {s \in SeqIds : max_tokens[s] > 0}

\* The end of a round: each active sequence's result grows by one round and by
\* the round's counts, the others' results stay; no other step of decode_batch
\* touches a result.
ResultsGrowOncePerRound ==
    /\ (phase = "processed" /\ phase' = "loop") =>
          \A s \in SeqIds :
              IF s \in Range(active_sequences)
              THEN /\ results'[s].present
                   /\ results'[s].speculation_rounds = results[s].speculation_rounds + 1
                   /\ results'[s].tokens_generated =
                          results[s].tokens_generated + round_results[s].tokens_generated
                   /\ results'[s].tokens_accepted =
                          results[s].tokens_accepted + round_results[s].tokens_accepted
              ELSE results'[s] = results[s]
    /\ (results' # results /\ phase' # "idle") => (phase = "processed" /\ phase' = "loop")

\* What decode_batch returns: one result per input sequence, each having gone
\* through at least one round; none for an empty batch
OneResultPerSequence ==
    phase = "returned" =>
        /\ {s \in SeqIds : results[s].present} = input_sequences
        /\ \A s \in input_sequences : results[s].speculation_rounds >= 1
        /\ \A s \in SeqIds \ input_sequences : results[s] = NoResult

\* C22: each sequence's DecodeResult is mutated exactly once per round in which
\* the sequence is active: speculation_rounds grows by exactly 1 and
\* tokens_generated / tokens_accepted grow by that round's counts; decode_batch
\* returns exactly one result per distinct input sequence id and an empty list for
\* an empty batch.
C22_ResultCountsRounds == [](OneResultPerSequence) /\ [][ResultsGrowOncePerRound]_vars

\* decode_batch returned for two sequences, one active for one round and the
\* other for two, with tokens counted in both rounds
C22_Witness ==
    /\ phase = "returned"
    /\ results["s1"].speculation_rounds = 2
    /\ results["s2"].speculation_rounds = 1
    /\ results["s1"].tokens_generated > round_results["s1"].tokens_generated
    /\ round_results["s1"].tokens_generated > 0

\* ---------------------------------------------------------------------------
\* Sequences that have left the active set
\* ---------------------------------------------------------------------------

\* Everything decode_batch keeps for sequence s: its result and its signal and
\* adapter state
sequence_record(s) ==
    << results[s], kld_histories[s], entropy_history[s],
       adapter_kld_histories[s], adapter_entropy_history[s],
       sequence_performance[s], sequence_states[s] >>

\* The sequences of this call that are no longer active
left_sequences == input_sequences \ Range(active_sequences)

\* A sequence that is not active has no draft and no verification answer
NoStepForLeftSequences ==
    \A s \in SeqIds \ Range(active_sequences) :
        ~draft_results[s].present /\ ~verification_results[s].present

\* Within a decode_batch call a sequence that has left stays out and is left as
\* it is
LeftSequencesAreFrozen ==
    (phase \notin {"idle", "returned"}) =>
        \A s \in left_sequences :
            /\ s \notin Range(active_sequences')
            /\ sequence_record(s)' = sequence_record(s)

\* C23: once a sequence has left the active set it is never re-activated, it is
\* never again passed to the draft or verification collaborator, and neither its
\* DecodeResult nor its signal/adapter state is mutated by any later round of that
\* decode_batch call.
C23_CompletionIsTerminal == [](NoStepForLeftSequences) /\ [][LeftSequencesAreFrozen]_vars

\* A later round under way for s2 after s1 has left with its result
C23_Witness ==
    /\ phase = "processed"
    /\ active_sequences = << "s2" >>
    /\ left_sequences = {"s1"}
    /\ results["s1"].present /\ results["s1"].tokens_generated > 0
    /\ results["s2"].speculation_rounds = 1
    /\ round_results["s2"].tokens_generated > 0

\* ---------------------------------------------------------------------------
\* reset_stats and the decoder's statistics
\* ---------------------------------------------------------------------------

\* C24: after DSDecoder.reset_stats every GlobalStats counter is 0 and the
\* decoder's PerformanceMetrics is in its initial state too (round_counter = 0,
\* total_rounds = 0, empty round history).
C24_ResetClearsStatistics ==
    phase = "idle" =>
        /\ global_stats = NewGlobalStats
        /\ performance_metrics.round_counter = 0
        /\ performance_metrics.total_rounds = 0
        /\ performance_metrics.round_metrics_len = 0

\* ---------------------------------------------------------------------------
\* The speculation lengths handed to draft generation
\* ---------------------------------------------------------------------------

\* The lengths this round's optimizer computes for the active sequences, in
\* their order, from this round's predictions
round_lengths ==
    optimize_batch_speculation_lengths(
        [i \in 1..Len(active_sequences) |->
            predict_optimal_sl(adapter_metrics(active_sequences[i]),
                               sequence_performance[active_sequences[i]],
                               context_info[active_sequences[i]], config)],
        NoPriorities, config)[1]

\* C25: every speculation length handed to the draft-generation step in any round
\* of decode_batch is an integer in [min_speculation_length,
\* max_speculation_length], and it is the optimized length computed in that same
\* round for that same sequence, also after sequences have been removed.
C25_DraftGetsItsOwnLength ==
    phase = "drafted" =>
        LET lengths == round_lengths
        IN  \A i \in 1..Len(active_sequences) :
                LET handed == draft_results[active_sequences[i]]
                IN  (handed.present /\ ~handed.failed) =>
                        /\ handed.speculation_length = lengths[i]
                        /\ handed.tokens = lengths[i]
                        /\ handed.speculation_length \in
                               config.min_speculation_length..config.max_speculation_length

\* Two sequences drafted with different lengths, and a round in which the
\* second input sequence is drafted after the first has been removed
C25_Witness ==
    /\ phase = "drafted"
    /\ \/ /\ Len(active_sequences) = 2
          /\ ~draft_results["s1"].failed /\ ~draft_results["s2"].failed
          /\ draft_results["s1"].speculation_length # draft_results["s2"].speculation_length
       \/ /\ active_sequences = << "s2" >>
          /\ results["s1"].present
          /\ ~draft_results["s2"].failed

\* ---------------------------------------------------------------------------
\* Accepted tokens against generated tokens
\* ---------------------------------------------------------------------------

\* The verification collaborator never reports more accepted tokens than the
\* draft it was given holds
VerifierHonoursDraft ==
    \A s \in SeqIds :
        verification_results[s].present =>
            verification_results[s].accepted_tokens <= draft_results[s].tokens

AcceptedWithinGenerated ==
    /\ \A s \in SeqIds :
          /\ results[s].tokens_accepted <= results[s].tokens_generated
          /\ round_results[s].tokens_accepted <= round_results[s].tokens_generated
          /\ sequence_performance[s].total_tokens_accepted
                 <= sequence_performance[s].total_tokens_generated
    /\ global_stats.total_tokens_accepted <= global_stats.total_tokens_generated

\* What a returning decode_batch call adds to the GlobalStats totals, whatever
\* they were before the call
CallAddsAcceptedWithinGenerated ==
    (phase = "loop" /\ phase' = "returned") =>
        /\ global_stats'.total_tokens_generated >= global_stats.total_tokens_generated
        /\ global_stats'.total_tokens_accepted - global_stats.total_tokens_accepted
               <= global_stats'.total_tokens_generated - global_stats.total_tokens_generated

\* C26: provided the verification collaborator honours accepted_count <=
\* len(draft_tokens), tokens_accepted <= tokens_generated holds for every
\* DecodeResult after every round, for every sequence's adapter running totals, and
\* for the GlobalStats totals after any number of decode_batch calls, including
\* rounds in which draft generation failed and produced no tokens.
C26_AcceptedNeverExceedsGenerated ==
    /\ [](VerifierHonoursDraft => AcceptedWithinGenerated)
    /\ [][CallAddsAcceptedWithinGenerated]_vars

\* A call returned in which one sequence's draft failed in a round and the
\* other's tokens were partly accepted
C26_Witness ==
    /\ phase = "returned"
    /\ global_stats.total_tokens_generated > global_stats.total_tokens_accepted
    /\ global_stats.total_tokens_accepted > 0
    /\ \E s \in SeqIds :
          /\ results[s].present
          /\ results[s].tokens_generated = 0
          /\ sequence_performance[s].recent_acceptance_rates # <<>>

\* ---------------------------------------------------------------------------
\* A round whose draft generation failed
\* ---------------------------------------------------------------------------

\* C27: a round in which a sequence's draft generation fails (no draft tokens
\* produced) leaves that sequence's adapter state unchanged: nothing is appended
\* to its acceptance-rate or speculation-length history and its running totals do
\* not move.
C27_FailedDraftLeavesAdapterState ==
    [][ (phase = "verified" /\ phase' = "processed") =>
            \A s \in Range(active_sequences) :
                draft_results[s].failed =>
                    sequence_performance'[s] = sequence_performance[s] ]_vars

\* ---------------------------------------------------------------------------
\* The stability base and the history adjustment as functions of their inputs
\* ---------------------------------------------------------------------------

\* Stability scores, in tenths, on both sides of and on the two thresholds
StabilityValues == { <<k, 10>> : k \in 0 .. 10 }

\* WVIR values on both sides of and on the two WVIR thresholds
WvirValues == { <<0, 1>>, <<1, 2>>, <<1, 1>>, <<2, 1>>, <<3, 1>>, <<4, 1>> }

\* Entropies below 1, between 1 and 4, and above 4
MetricEntropies == { 0, 2, 5 }

\* The metrics dicts handed to _predict_from_stability, every key present
StabilityMetrics ==
    { [ stability |-> st, has_wvir |-> TRUE, wvir |-> w,
        has_entropy |-> TRUE, current_entropy |-> e ] :
          st \in StabilityValues, w \in WvirValues, e \in MetricEntropies }

\* The metrics dict of a recorded call
MetricsOf(args) ==
    [ stability |-> args[1], has_wvir |-> TRUE, wvir |-> args[2],
      has_entropy |-> TRUE, current_entropy |-> args[3] ]

\* adapter._predict_from_stability(metrics)
ApiPredictFromStability ==
    /\ constructed
    /\ \E metrics \in StabilityMetrics :
          last_call' = [ NoCall EXCEPT
                           !.op = "_predict_from_stability",
                           !.args = << metrics.stability, metrics.wvir,
                                       metrics.current_entropy >>,
                           !.raw = predict_from_stability(metrics, config) ]
    /\ UNCHANGED << cfgVars, signalVars, adapterVars, decoderVars, batchVars, ops,
                    threadVars, serverVars >>

InitStability ==
    /\ config \in { cfg \in AdapterConfigs : ValidConfig(cfg) }
    /\ constructed = TRUE
    /\ Fresh

NextStability == ApiPredictFromStability

SpecStability == InitStability /\ [][NextStability]_vars

\* C28: for fixed entropy and a fixed config, the base length computed by
\* _predict_from_stability never increases when WVIR increases at fixed
\* stability, and never decreases when stability increases at fixed WVIR.
C28_StabilityBaseIsMonotone ==
    last_call.op = "_predict_from_stability" =>
        LET m == MetricsOf(last_call.args)
        IN  \A other \in StabilityMetrics :
               other.current_entropy = m.current_entropy =>
                   /\ (other.stability = m.stability /\ RLe(m.wvir, other.wvir)) =>
                          RLe(predict_from_stability(other, config), last_call.raw)
                   /\ (other.wvir = m.wvir /\ RLe(m.stability, other.stability)) =>
                          RLe(last_call.raw, predict_from_stability(other, config))

\* Rounds a sequence has reported before the adjustment is computed
MaxReports == 3

\* Draft tokens of every reported round
ReportedLength == 4

\* The accepted-token counts of up to n reported rounds
AcceptedCounts(n) == UNION { [1 .. k -> 0 .. ReportedLength] : k \in 0 .. n }

\* sequence_performance[sequence_id] after update_performance(sequence_id,
\* ReportedLength, accepted, ReportedLength) for each count of the list in turn
RECURSIVE PerformanceAfter(_, _)
PerformanceAfter(perf, accepted) ==
    IF accepted = <<>> THEN perf
    ELSE PerformanceAfter(update_performance(perf, ReportedLength, Head(accepted),
                                             ReportedLength),
                          Tail(accepted))

\* Base lengths handed to _adjust_for_history
BaseLengths == { <<1, 1>>, <<4, 1>>, <<32, 5>> }

\* adapter._adjust_for_history('s1', base_sl)
ApiAdjustForHistory ==
    /\ constructed
    /\ \E base_sl \in BaseLengths :
          last_call' = [ NoCall EXCEPT
                           !.op = "_adjust_for_history", !.seq = "s1",
                           !.args = << base_sl >>,
                           !.raw = adjust_for_history(sequence_performance["s1"], base_sl) ]
    /\ UNCHANGED << cfgVars, signalVars, adapterVars, decoderVars, batchVars, ops,
                    threadVars, serverVars >>

\* Every variable of a new decoder but sequence_performance
FreshButPerformance ==
    /\ kld_histories = [s \in SeqIds |-> <<>>]
    /\ entropy_history = [s \in SeqIds |-> <<>>]
    /\ adapter_kld_histories = [s \in SeqIds |-> <<>>]
    /\ adapter_entropy_history = [s \in SeqIds |-> <<>>]
    /\ sequence_states = [s \in SeqIds |-> NoSequenceState]
    /\ global_stats = NewGlobalStats
    /\ performance_metrics = NewPerformanceMetrics
    /\ phase = "idle"
    /\ active_sequences = <<>>
    /\ max_tokens = [s \in SeqIds |-> 0]
    /\ context_info = [s \in SeqIds |-> NoContext]
    /\ results = [s \in SeqIds |-> NoResult]
    /\ rounds_done = 0
    /\ speculation_lengths = <<>>
    /\ optimized_sls = <<>>
    /\ sl_cap = 0
    /\ draft_results = [s \in SeqIds |-> NoDraft]
    /\ verification_results = [s \in SeqIds |-> NoVerification]
    /\ round_results = [s \in SeqIds |-> NoRoundResult]
    /\ last_call = NoCall
    /\ ops = 0
    /\ thread_pc = [t \in Threads |-> [ at |-> "idle", key |-> 1 ]]
    /\ thread_loaded = [t \in Threads |-> 0]
    /\ thread_batch = [t \in Threads |-> NewGlobalStats]
    /\ system_metrics = NewSystemMetrics
    /\ metrics_lock = Unlocked
    /\ worker = [t \in Threads |-> IdleWorker]

InitAdjust ==
    /\ config = DefaultAdapterConfig
    /\ constructed = TRUE
    /\ \E accepted \in AcceptedCounts(MaxReports) :
          sequence_performance =
              [s \in SeqIds |-> IF s = "s1" THEN PerformanceAfter(NewPerformance, accepted)
                                ELSE NewPerformance]
    /\ FreshButPerformance

NextAdjust == ApiAdjustForHistory

SpecAdjust == InitAdjust /\ [][NextAdjust]_vars

\* The factor _adjust_for_history applied to the base length in the recorded call
multiplier == RDiv(last_call.raw, last_call.args[1])

\* The performance records whose mean acceptance rate is at least that of perf
AtLeastAsAccepted(perf) ==
    { other \in { PerformanceAfter(NewPerformance, accepted) :
                      accepted \in AcceptedCounts(MaxReports) \ {<<>>} } :
          RLe(MeanRat(perf.recent_acceptance_rates),
              MeanRat(other.recent_acceptance_rates)) }

\* C29: for every recent mean acceptance rate in [0,1] the multiplier computed by
\* _adjust_for_history is at least 0.5, and a higher recent acceptance rate never
\* yields a smaller multiplier than a lower one.
C29_HistoryAdjustmentIsMonotone ==
    (last_call.op = "_adjust_for_history"
        /\ sequence_performance["s1"].recent_acceptance_rates # <<>>) =>
        /\ RLe(<<1, 2>>, multiplier)
        /\ \A other \in AtLeastAsAccepted(sequence_performance["s1"]) :
              RLe(last_call.raw, adjust_for_history(other, last_call.args[1]))

\* ---------------------------------------------------------------------------
\* BatchOptimizer (utils.py), the optimizer the dsde package exports
\* ---------------------------------------------------------------------------

\* `if priorities:` is taken for a list with at least one weight
truthy(priorities) == priorities.given /\ priorities.weights # <<>>

\* utils.BatchOptimizer.optimize_batch_speculation_lengths: <<optimized_sls, sl_cap>>.
\* The cap is clamped to the literals 1 and 8; the entry appended to batch_history
\* is not read by the call.
utils_optimize_batch_speculation_lengths(predicted_sls, priorities) ==
    IF predicted_sls = <<>> THEN << <<>>, 0 >>
    ELSE LET mean == IF truthy(priorities)
                     THEN IF SumInt(priorities.weights) = 0 THEN <<0, 1>>
                          ELSE Rat(WeightedSum(predicted_sls, priorities.weights),
                                   SumInt(priorities.weights))
                     ELSE Rat(SumInt(predicted_sls), Len(predicted_sls))
             cap  == Max2(1, Min2(8, RRound(mean)))
         IN  << apply_cap(predicted_sls, cap), cap >>

\* dsde.BatchOptimizer().optimize_batch_speculation_lengths(predicted_sls, priorities)
\* on the arguments the decoder's optimizer was just called with
ApiUtilsOptimizeBatch ==
    /\ last_call.op = "optimize_batch_speculation_lengths"
    /\ last_call' = [ last_call EXCEPT
                        !.op = "utils.optimize_batch_speculation_lengths",
                        !.args = utils_optimize_batch_speculation_lengths(
                                     speculation_lengths, last_call.priorities) ]
    /\ UNCHANGED << cfgVars, signalVars, adapterVars, decoderVars, batchVars, ops,
                    threadVars, serverVars >>

NextOptimizers ==
    \/ ApiOptimizeBatch
    \/ ApiUtilsOptimizeBatch

SpecOptimizers == InitBatch /\ [][NextOptimizers]_vars

\* C30: for every non-empty batch of predicted lengths and every AdapterConfig,
\* the BatchOptimizer exported by the dsde package returns the same
\* (optimized_sls, sl_cap) as the BatchOptimizer the decoder uses.
C30_OptimizersAgree ==
    last_call.op = "utils.optimize_batch_speculation_lengths" =>
        last_call.args = << optimized_sls, sl_cap >>

====
